---- MODULE Spec2Model ----
(***************************************************************************)
(* MikroConf: configuration from defaults, a JSON file, an explicit object *)
(* and command-line arguments, merged into one nested tree.                *)
(*                                                                         *)
(* JavaScript values are tagged records.  A JavaScript string is a         *)
(* sequence of text chunks: tokens, flags, paths and keys are written one  *)
(* character per chunk, the literal parts of the program's template        *)
(* strings are one chunk each, and concatenation is \o.                    *)
(***************************************************************************)
EXTENDS Integers, Sequences, FiniteSets, TLC

VARIABLES
    pc,             \* position of the running operation
    options,        \* this.options: the ConfigOption list
    args,           \* the CLI token list handed to the constructor
    file,           \* the file collaborator: path given, exists, content
    configuration,  \* the explicit config object handed to the constructor
    config,         \* this.config: the live tree
    defaults,       \* createConfig: the tree of the options' default values
    fileConfig,     \* createConfig: the tree read from the file
    out,            \* console.log lines
    err,            \* console.error lines (the diagnostic sink)
    i,              \* parseCliArgs: index of the next token (0-based)
    cliConfig,      \* parseCliArgs: the tree built so far
    looked,         \* parseCliArgs: 0-based positions looked up as a flag
    called,         \* parseCliArgs: the validator calls made, in order
    prev,           \* parseCliArgs: the loop's state before the last iteration
    target,         \* deepMerge: first argument
    source,         \* deepMerge: second argument
    result,         \* deepMerge: returned value
    validators,     \* this.validators: the ValidatorConfig list
    autoValidate,   \* this.autoValidate
    outcome,        \* the last public call: what it returned or raised
    invoked,        \* validate: the validators invoked by the last run, in order
    obj,            \* setValueAtPath: the tree written to
    written,        \* setValueAtPath: the paths written so far, with their values
    upper,          \* deepMerge: the source of a second merge
    heap,           \* the objects and arrays of the program, by address
    refs,           \* the references held: the caller's objects, this.config
    calls           \* setValue: the calls under way, each after its read

storeVars == <<file, configuration, config, defaults, fileConfig, out>>
cliVars == <<i, cliConfig, looked, called, prev>>
mergeVars == <<target, source, result, upper>>
callVars == <<validators, autoValidate, outcome, invoked>>
pathVars == <<obj, written>>
heapVars == <<heap, refs>>
raceVars == <<calls>>
vars == <<pc, options, args, err, storeVars, cliVars, mergeVars, callVars, pathVars,
          heapVars, raceVars>>

(***************************************************************************)
(* Values                                                                  *)
(***************************************************************************)
Undef == [t |-> "undef"]
Null == [t |-> "null"]
Bool(b) == [t |-> "bool", v |-> b]
Num(n) == [t |-> "num", v |-> n]
Str(s) == [t |-> "str", v |-> s]
\* an array: its elements and the named properties set on it
Arr(s) == [t |-> "arr", v |-> s, p |-> <<>>]
Obj(f) == [t |-> "obj", v |-> f]
EmptyObj == Obj(<<>>)

\* typeof v === 'object' && v !== null && !Array.isArray(v)
IsMapping(v) == v.t = "obj"

\* typeof v === 'object' (null included)
TypeofObject(v) == v.t \in {"obj", "arr", "null"}

Digits == <<"0", "1", "2", "3", "4", "5", "6", "7", "8", "9">>

\* the property name of array index n (n < 10)
IndexKey(n) == <<Digits[n + 1]>>

\* the enumerable own properties of a value, as for..in and spread see them
Props(v) ==
    CASE v.t = "obj" -> v.v
      [] v.t = "arr" ->
            [k \in {IndexKey(n - 1) : n \in 1..Len(v.v)} \cup DOMAIN v.p |->
                IF k \in DOMAIN v.p THEN v.p[k]
                ELSE v.v[(CHOOSE n \in 1..Len(v.v) : IndexKey(n - 1) = k)]]
      [] v.t = "str" ->
            [k \in {IndexKey(n - 1) : n \in 1..Len(v.v)} |->
                Str(<<v.v[(CHOOSE n \in 1..Len(v.v) : IndexKey(n - 1) = k)]>>)]
      [] OTHER -> <<>>

\* key in v
HasKey(v, key) == key \in DOMAIN Props(v)

\* v[key]
Get(v, key) == IF HasKey(v, key) THEN Props(v)[key] ELSE Undef

\* v[key] = x, on an object or an array
Put(v, key, x) ==
    LET with(f) == [k \in DOMAIN f \cup {key} |-> IF k = key THEN x ELSE f[k]]
    IN  IF v.t = "arr" THEN [v EXCEPT !.p = with(v.p)] ELSE Obj(with(v.v))

(***************************************************************************)
(* deepMerge                                                               *)
(***************************************************************************)
RECURSIVE deepMerge(_, _)

\* a merge that replaces a mapping by the source's mapping instead of merging
deepMerge_Shallow(tgt, src) ==
    LET t == Props(tgt)
        s == Props(src)
        set == {k \in DOMAIN s : s[k] # Undef}
    IN  Obj([k \in DOMAIN t \cup set |-> IF k \notin set THEN t[k] ELSE s[k]])

\* a merge that appends the source's array to the target's
deepMerge_Concat(tgt, src) ==
    LET t == Props(tgt)
        s == Props(src)
        set == {k \in DOMAIN s : s[k] # Undef}
    IN  Obj([k \in DOMAIN t \cup set |->
                IF k \notin set THEN t[k]
                ELSE IF IsMapping(s[k]) /\ k \in DOMAIN t /\ IsMapping(t[k])
                     THEN deepMerge(t[k], s[k])
                     ELSE IF s[k].t = "arr" /\ k \in DOMAIN t /\ t[k].t = "arr"
                     THEN Arr(t[k].v \o s[k].v)
                     ELSE s[k]])

\* a merge that copies the source's undefined values
deepMerge_KeepUndefined(tgt, src) ==
    LET t == Props(tgt)
        s == Props(src)
    IN  Obj([k \in DOMAIN t \cup DOMAIN s |->
                IF k \notin DOMAIN s THEN t[k]
                ELSE IF IsMapping(s[k]) /\ k \in DOMAIN t /\ IsMapping(t[k])
                     THEN deepMerge(t[k], s[k])
                     ELSE s[k]])

deepMerge(tgt, src) ==
    LET t == Props(tgt)
        s == Props(src)
        set == {k \in DOMAIN s : s[k] # Undef}
    IN  Obj([k \in DOMAIN t \cup set |->
                IF k \notin set THEN t[k]
                ELSE IF IsMapping(s[k]) /\ k \in DOMAIN t /\ IsMapping(t[k])
                     THEN deepMerge(t[k], s[k])
                     ELSE s[k]])

(***************************************************************************)
(* Paths                                                                   *)
(***************************************************************************)
\* path.split('.')
RECURSIVE Split(_)
Split(path) ==
    IF \A n \in 1..Len(path) : path[n] # "."
    THEN <<path>>
    ELSE LET d == CHOOSE n \in 1..Len(path) :
                    path[n] = "." /\ \A m \in 1..(n - 1) : path[m] # "."
         IN  <<SubSeq(path, 1, d - 1)>> \o Split(SubSeq(path, d + 1, Len(path)))

RECURSIVE setParts(_, _, _)

\* a descent that installs an empty mapping at every intermediate part
setParts_Fresh(o, parts, value) ==
    IF Len(parts) = 1
    THEN Put(o, parts[1], value)
    ELSE Put(o, parts[1], setParts(EmptyObj, Tail(parts), value))

\* a descent that replaces an array on the way by an empty mapping
setParts_ArrayReplaced(o, parts, value) ==
    IF Len(parts) = 1
    THEN Put(o, parts[1], value)
    ELSE LET part == parts[1]
             next == IF IsMapping(Get(o, part)) THEN Get(o, part) ELSE EmptyObj
         IN  Put(o, part, setParts(next, Tail(parts), value))

setParts(o, parts, value) ==
    IF Len(parts) = 1
    THEN Put(o, parts[1], value)
    ELSE LET part == parts[1]
             next == IF ~HasKey(o, part) \/ Get(o, part) = Null THEN EmptyObj
                     ELSE IF ~TypeofObject(Get(o, part)) THEN EmptyObj
                     ELSE Get(o, part)
         IN  Put(o, part, setParts(next, Tail(parts), value))

\* the object after setValueAtPath(obj, path, value)
setValueAtPath(o, path, value) == setParts(o, Split(path), value)

RECURSIVE getParts(_, _)
\* a walk that stops at every value that is no object
getParts_ScalarStops(current, parts) ==
    IF parts = <<>> THEN current
    ELSE IF ~TypeofObject(current) \/ current = Null THEN Undef
    ELSE getParts(Get(current, parts[1]), Tail(parts))

getParts(current, parts) ==
    IF parts = <<>> THEN current
    ELSE IF current = Undef \/ current = Null THEN Undef
    ELSE getParts(Get(current, parts[1]), Tail(parts))

getValueAtPath(o, path) == getParts(o, Split(path))

(***************************************************************************)
(* Strings                                                                 *)
(***************************************************************************)
\* s.startsWith('-')
StartsWithDash(s) == Len(s) > 0 /\ s[1] = "-"

\* s.endsWith(suffix)
EndsWith(s, suffix) ==
    /\ Len(s) >= Len(suffix)
    /\ SubSeq(s, Len(s) - Len(suffix) + 1, Len(s)) = suffix

\* s.trim(), for the white space the tokens can hold
RECURSIVE Trim(_)
Trim(s) ==
    IF s # <<>> /\ s[1] = " " THEN Trim(Tail(s))
    ELSE IF s # <<>> /\ s[Len(s)] = " " THEN Trim(SubSeq(s, 1, Len(s) - 1))
    ELSE s

IsDigit(c) == \E d \in 1..10 : Digits[d] = c
DigitValue(c) == (CHOOSE d \in 1..10 : Digits[d] = c) - 1

\* the number a run of decimal digits denotes
RECURSIVE DigitsValue(_)
DigitsValue(s) ==
    IF s = <<>> THEN 0
    ELSE 10 * DigitsValue(SubSeq(s, 1, Len(s) - 1)) + DigitValue(s[Len(s)])

\* the decimal text of a natural number
RECURSIVE NatText(_)
NatText(n) == IF n < 10 THEN <<Digits[n + 1]>>
              ELSE NatText(n \div 10) \o <<Digits[(n % 10) + 1]>>

\* String(n)
NumText(n) == IF n < 0 THEN <<"-">> \o NatText(-n) ELSE NatText(n)

(***************************************************************************)
(* parsers and validators                                                  *)
(***************************************************************************)
\* the outcome of a call: a returned value or a thrown Error with its message
Returned(v) == [thrown |-> FALSE, v |-> v]
Thrown(message) == [thrown |-> TRUE, v |-> Str(message)]

\* /^[+-]?\d+$/.test(s)
IsIntText(s) ==
    LET body == IF s # <<>> /\ s[1] \in {"+", "-"} THEN Tail(s) ELSE s
    IN  body # <<>> /\ \A n \in 1..Len(body) : IsDigit(body[n])

\* Number.parseInt(s, 10) of a text IsIntText accepts
ParseInt(s) ==
    IF s[1] = "-" THEN -DigitsValue(Tail(s))
    ELSE IF s[1] = "+" THEN DigitsValue(Tail(s))
    ELSE DigitsValue(s)

\* parsers.int
ParserInt(value) ==
    LET trimmedValue == Trim(value)
    IN  IF ~IsIntText(trimmedValue)
        THEN Thrown(<<"Cannot parse \"">> \o value \o <<"\" as an integer">>)
        ELSE Returned(Num(ParseInt(trimmedValue)))

\* option.parser(value), for the parsers an option of the model may name
CallParser(parser, value) ==
    CASE parser = "int" -> ParserInt(value.v)
      [] OTHER -> Returned(value)

\* the number a value converts to in a comparison, NaN as Undef; an array
\* converts as the text of its elements joined by commas
RECURSIVE ToNumber(_)
ToNumber(value) ==
    CASE value.t = "num" -> value
      [] value.t = "bool" -> Num(IF value.v THEN 1 ELSE 0)
      [] value.t = "null" -> Num(0)
      [] value.t = "str" ->
            IF Trim(value.v) = <<>> THEN Num(0)
            ELSE IF IsIntText(Trim(value.v)) THEN Num(ParseInt(Trim(value.v)))
            ELSE Undef
      [] value.t = "arr" ->
            IF Len(value.v) = 0 THEN Num(0)
            ELSE IF Len(value.v) > 1 THEN Undef
            ELSE IF value.v[1].t \in {"null", "undef"} THEN Num(0)
            ELSE IF value.v[1].t \in {"num", "str", "arr"} THEN ToNumber(value.v[1])
            ELSE Undef
      [] OTHER -> Undef

\* validators.range(min, max)(value)
ValidatorRange(min, max, value) ==
    LET n == ToNumber(value)
    IN  IF n # Undef /\ n.v >= min /\ n.v <= max THEN Bool(TRUE)
        ELSE Str(<<"Value must be between ">> \o NumText(min) \o <<" and ">>
                 \o NumText(max))

\* option.validator(value): a range validator, or a function of the caller's
\* that returns the same result for every value
CallValidator(validator, value) ==
    IF validator.kind = "range"
    THEN ValidatorRange(validator.min, validator.max, value)
    ELSE validator.returns

(***************************************************************************)
(* parseCliArgs                                                            *)
(***************************************************************************)
NodeSuffix == <<"n", "o", "d", "e">>
NodeExeSuffix == <<"n", "o", "d", "e", ".", "e", "x", "e">>

\* a start that skips two tokens behind the very token 'node' only
StartIndex_NodeOnly(A) == IF Len(A) > 0 /\ A[1] = NodeSuffix THEN 2 ELSE 0

\* the index the loop starts at
StartIndex(A) ==
    IF Len(A) > 0 /\ (EndsWith(A[1], NodeSuffix) \/ EndsWith(A[1], NodeExeSuffix))
    THEN 2 ELSE 0

\* this.options.find((opt) => opt.flag === arg): its position, 0 if none
FindOption(O, arg) ==
    LET hits == {n \in 1..Len(O) : O[n].hasFlag /\ O[n].flag = arg}
    IN  IF hits = {} THEN 0 ELSE CHOOSE n \in hits : \A m \in hits : n <= m

\* a catch that prints nothing
ParserFailed_Silent(option, error, st) == [st EXCEPT !.kind = "parseError"]

\* a catch that prints and then writes the raw text all the same
ParserFailed_WritesRaw(option, error, st) ==
    [st EXCEPT !.err = Append(@, <<"Error parsing value for ">> \o option.flag
                                  \o <<": ">> \o error.v),
               !.cliConfig = setValueAtPath(@, option.path, Str(<<"r", "a", "w">>)),
               !.kind = "parseError"]

\* the catch of a throwing parser: one diagnostic, and on to the next token
ParserFailed(option, error, st) ==
    [st EXCEPT !.err = Append(@, <<"Error parsing value for ">> \o option.flag
                                  \o <<": ">> \o error.v),
               !.kind = "parseError"]

\* a verdict that lets false pass
Validated_FalseAccepted(option, value, st) ==
    LET validationResult == CallValidator(option.validator, value)
        call == [flag |-> option.flag, value |-> value]
    IN  IF option.validator.kind = "none"
        THEN [st EXCEPT !.cliConfig = setValueAtPath(@, option.path, value),
                        !.kind = "value"]
        ELSE IF validationResult # Bool(TRUE) /\ validationResult.t = "str"
        THEN [st EXCEPT !.err = Append(@, <<"Invalid value for ">> \o option.flag
                                          \o <<": ">> \o validationResult.v),
                        !.called = Append(@, call),
                        !.kind = "invalidMessage"]
        ELSE [st EXCEPT !.cliConfig = setValueAtPath(@, option.path, value),
                        !.called = Append(@, call),
                        !.kind = "value"]

\* the validator's verdict on the value, and the write if it passes
Validated(option, value, st) ==
    LET validationResult == CallValidator(option.validator, value)
        call == [flag |-> option.flag, value |-> value]
    IN  IF option.validator.kind = "none"
        THEN [st EXCEPT !.cliConfig = setValueAtPath(@, option.path, value),
                        !.kind = "value"]
        ELSE IF validationResult # Bool(TRUE) /\ validationResult.t = "str"
        THEN [st EXCEPT !.err = Append(@, <<"Invalid value for ">> \o option.flag
                                          \o <<": ">> \o validationResult.v),
                        !.called = Append(@, call),
                        !.kind = "invalidMessage"]
        ELSE IF validationResult = Bool(FALSE)
        THEN [st EXCEPT !.err = Append(@, <<"Invalid value for ">> \o option.flag),
                        !.called = Append(@, call),
                        !.kind = "invalid"]
        ELSE [st EXCEPT !.cliConfig = setValueAtPath(@, option.path, value),
                        !.called = Append(@, call),
                        !.kind = "value"]

\* a value branch that reads the next token and leaves it in the list
ProcessValue_NotConsumed(option, A, st) ==
    LET value == Str(A[st.i + 1])
        parsed == IF option.parser # "none" THEN CallParser(option.parser, value)
                  ELSE Returned(value)
    IN  IF parsed.thrown THEN ParserFailed(option, parsed.v, st)
        ELSE Validated(option, parsed.v, st)

\* the value branch: take the next token, parse, validate, write
ProcessValue(option, A, st) ==
    LET value == Str(A[st.i + 1])
        taken == [st EXCEPT !.i = @ + 1]
        parsed == IF option.parser # "none" THEN CallParser(option.parser, value)
                  ELSE Returned(value)
    IN  IF parsed.thrown THEN ParserFailed(option, parsed.v, taken)
        ELSE Validated(option, parsed.v, taken)

\* a flag branch that swallows the token after the flag
FlagSet_TakesNext(option, st) ==
    [st EXCEPT !.cliConfig = setValueAtPath(@, option.path, Bool(TRUE)),
               !.i = @ + 1,
               !.kind = "flag"]

\* the boolean flag branch
FlagSet(option, st) ==
    [st EXCEPT !.cliConfig = setValueAtPath(@, option.path, Bool(TRUE)),
               !.kind = "flag"]

\* a test that takes any next token for a value
ValueFollows_AnyToken(A, j) == j < Len(A)

\* i < args.length && !args[i].startsWith('-')
ValueFollows(A, j) == j < Len(A) /\ ~StartsWithDash(A[j + 1])

\* a missing value that throws away what was written so far
ValueMissing_Resets(arg, st) ==
    [st EXCEPT !.err = Append(@, <<"Missing value for option ">> \o arg),
               !.cliConfig = EmptyObj,
               !.kind = "missing"]

\* the branch of an option that wants a value and finds none
ValueMissing(arg, st) ==
    [st EXCEPT !.err = Append(@, <<"Missing value for option ">> \o arg),
               !.kind = "missing"]

\* an iteration that skips the token behind an unmatched one as well
Iteration_SkipsTwo(A, O, st) ==
    LET arg == A[st.i + 1]
        n == FindOption(O, arg)
        at == [st EXCEPT !.i = @ + 1, !.looked = @ \cup {st.i}]
    IN  IF n = 0 THEN [at EXCEPT !.i = @ + 1, !.kind = "unmatched"]
        ELSE IF O[n].isFlag THEN FlagSet(O[n], at)
        ELSE IF ValueFollows(A, at.i) THEN ProcessValue(O[n], A, at)
        ELSE ValueMissing(arg, at)

\* one iteration of the while loop, from i < args.length
Iteration(A, O, st) ==
    LET arg == A[st.i + 1]
        n == FindOption(O, arg)
        at == [st EXCEPT !.i = @ + 1, !.looked = @ \cup {st.i}]
    IN  IF n = 0 THEN [at EXCEPT !.kind = "unmatched"]
        ELSE IF O[n].isFlag THEN FlagSet(O[n], at)
        ELSE IF ValueFollows(A, at.i) THEN ProcessValue(O[n], A, at)
        ELSE ValueMissing(arg, at)

RECURSIVE CliLoop(_, _, _)
CliLoop(A, O, st) ==
    IF st.i < Len(A) THEN CliLoop(A, O, Iteration(A, O, st)) ELSE st

\* parseCliArgs(args): the tree returned and the diagnostics printed
parseCliArgs(A, O) ==
    CliLoop(A, O, [i |-> StartIndex(A), cliConfig |-> EmptyObj, err |-> <<>>,
                   called |-> <<>>, looked |-> {}, kind |-> "start"])

(***************************************************************************)
(* createConfig                                                            *)
(***************************************************************************)
RECURSIVE DefaultsOf(_, _)

\* defaults that leave out null as well
DefaultsOf_NoNull(O, n) ==
    IF n = 0 THEN EmptyObj
    ELSE IF O[n].defaultValue \notin {Undef, Null}
         THEN setValueAtPath(DefaultsOf(O, n - 1), O[n].path, O[n].defaultValue)
         ELSE DefaultsOf(O, n - 1)

\* the defaults tree after the first n options
DefaultsOf(O, n) ==
    IF n = 0 THEN EmptyObj
    ELSE IF O[n].defaultValue # Undef
         THEN setValueAtPath(DefaultsOf(O, n - 1), O[n].path, O[n].defaultValue)
         ELSE DefaultsOf(O, n - 1)

\* configFilePath && existsSync(configFilePath), and the read and parse went well
FileLoaded(f) == f.given /\ f.exists /\ ~f.read.thrown
\* a failed read that prints nothing
FileFailed_Silent(f) == FALSE

\* the read or the parse threw
FileFailed(f) == f.given /\ f.exists /\ f.read.thrown

\* a merge that lets the explicit object override the command line
MergeLayers_ExplicitLast(d, f, c, cli) ==
    deepMerge(deepMerge(deepMerge(deepMerge(EmptyObj, d), f), cli), c)

MergeLayers_FileOverExplicit(d, f, c, cli) ==
    deepMerge(deepMerge(deepMerge(deepMerge(EmptyObj, d), c), f), cli)

\* the four layers merged in order of precedence
MergeLayers(d, f, c, cli) ==
    deepMerge(deepMerge(deepMerge(deepMerge(EmptyObj, d), f), c), cli)

(***************************************************************************)
(* validate, get, getValue, setValue                                       *)
(***************************************************************************)
\* !!v
Truthy(v) ==
    CASE v.t \in {"undef", "null"} -> FALSE
      [] v.t = "bool" -> v.v
      [] v.t = "num" -> v.v # 0
      [] v.t = "str" -> v.v # <<>>
      [] OTHER -> TRUE

\* an Error object: its name, its message and its cause
Error(name, message, cause) ==
    [t |-> "error", name |-> name, message |-> message, cause |-> cause]

StatusCode == <<"s", "t", "a", "t", "u", "s", "C", "o", "d", "e">>
BadRequest == 400

\* an error that keeps an empty message
ValidationError_Plain(message) ==
    Error(<<"ValidationError">>, message, Obj(StatusCode :> Num(BadRequest)))

\* new ValidationError(message)
ValidationError(message) ==
    Error(<<"ValidationError">>,
          IF Truthy(message) THEN message ELSE Str(<<"Validation did not pass">>),
          Obj(StatusCode :> Num(BadRequest)))

\* the TypeError of a property read on undefined or null
TypeError(message) == Error(<<"TypeError">>, Str(message), Undef)

LengthKey == <<"l", "e", "n", "g", "t", "h">>

\* value.length
LengthOf(value) ==
    CASE value.t = "str" -> Num(Len(value.v))
      [] value.t = "arr" -> Num(Len(value.v))
      [] OTHER -> Get(value, LengthKey)

\* validators.minLength(min)(value)
ValidatorMinLength(min, value) ==
    IF value.t \in {"undef", "null"}
    THEN [thrown |-> TRUE,
          v |-> TypeError(<<"Cannot read properties of ">>
                          \o <<(IF value = Undef THEN "undefined" ELSE "null")>>
                          \o <<" (reading 'length')">>)]
    ELSE LET n == ToNumber(LengthOf(value))
         IN  IF n # Undef /\ n.v >= min THEN Returned(Bool(TRUE))
             ELSE Returned(Str(<<"Value must be at least ">> \o NumText(min)
                               \o <<" characters long">>))

\* validator.validator(value, this.config)
CallConfigValidator(validator, value, cfg) ==
    CASE validator.kind = "range" ->
            Returned(ValidatorRange(validator.min, validator.max, value))
      [] validator.kind = "minLength" -> ValidatorMinLength(validator.min, value)
      [] OTHER -> Returned(validator.returns)

\* the loop of validate() from the n-th ValidatorConfig on
RECURSIVE validateFrom(_, _, _, _)

\* a loop that runs every validator and raises what the last failing one gives
validateFrom_Last(cfg, V, n, seen) ==
    LET res(m) == CallConfigValidator(V[m].validator,
                                      getValueAtPath(cfg, V[m].path), cfg)
        bad == {m \in n..Len(V) :
                    res(m).thrown \/ res(m).v = Bool(FALSE) \/ res(m).v.t = "str"}
        all == seen \o [m \in 1..(Len(V) - n + 1) |-> n + m - 1]
    IN  IF bad = {} THEN [thrown |-> FALSE, v |-> Undef, invoked |-> all]
        ELSE LET m == CHOOSE x \in bad : \A y \in bad : y <= x
             IN  [thrown |-> TRUE, invoked |-> all,
                  v |-> IF res(m).thrown THEN res(m).v
                        ELSE IF res(m).v = Bool(FALSE) THEN ValidationError(V[m].message)
                        ELSE ValidationError(res(m).v)]

validateFrom(cfg, V, n, seen) ==
    IF n > Len(V) THEN [thrown |-> FALSE, v |-> Undef, invoked |-> seen]
    ELSE LET value == getValueAtPath(cfg, V[n].path)
             r == CallConfigValidator(V[n].validator, value, cfg)
             now == Append(seen, n)
         IN  IF r.thrown THEN [thrown |-> TRUE, v |-> r.v, invoked |-> now]
             ELSE IF r.v = Bool(FALSE)
             THEN [thrown |-> TRUE, v |-> ValidationError(V[n].message),
                   invoked |-> now]
             ELSE IF r.v.t = "str"
             THEN [thrown |-> TRUE, v |-> ValidationError(r.v), invoked |-> now]
             ELSE validateFrom(cfg, V, n + 1, now)

\* validate(): returns, or raises what the first failing validator gives
validate(cfg, V) == validateFrom(cfg, V, 1, <<>>)

\* a get() that goes by what validation said of the tree as constructed
get_Cached(cfg, V, auto) ==
    LET r == validate(MergeLayers(defaults, fileConfig, configuration, cliConfig), V)
    IN  IF auto /\ r.thrown THEN r
        ELSE [thrown |-> FALSE, v |-> cfg,
              invoked |-> IF auto THEN r.invoked ELSE <<>>]

\* get(): the live tree, after validate() if the store auto-validates
get(cfg, V, auto) ==
    LET r == validate(cfg, V)
    IN  IF auto /\ r.thrown THEN r
        ELSE [thrown |-> FALSE, v |-> cfg,
              invoked |-> IF auto THEN r.invoked ELSE <<>>]

\* a getValue that falls back on every falsy value
getValue_Falsy(cfg, path, defaultValue) ==
    LET value == getValueAtPath(cfg, path)
    IN  IF Truthy(value) THEN value ELSE defaultValue

\* getValue(path, defaultValue)
getValue(cfg, path, defaultValue) ==
    LET value == getValueAtPath(cfg, path)
    IN  IF value # Undef THEN value ELSE defaultValue

\* a setValue that overwrites whatever the value is
setValue_Overwrites(cfg, path, value) == setValueAtPath(cfg, path, value)

\* the live tree after setValue(path, value)
setValue(cfg, path, value) ==
    IF IsMapping(value)
    THEN LET got == getValueAtPath(cfg, path)
             currentValue == IF Truthy(got) THEN got ELSE EmptyObj
         IN  IF TypeofObject(currentValue) /\ currentValue.t # "arr"
             THEN setValueAtPath(cfg, path, deepMerge(currentValue, value))
             ELSE setValueAtPath(cfg, path, value)
    ELSE setValueAtPath(cfg, path, value)

(***************************************************************************)
(* getHelpText                                                             *)
(***************************************************************************)
\* the texts of a sequence joined by commas
RECURSIVE JoinComma(_)
JoinComma(texts) ==
    IF texts = <<>> THEN <<>>
    ELSE IF Len(texts) = 1 THEN texts[1]
    ELSE texts[1] \o <<",">> \o JoinComma(Tail(texts))

\* the own keys of the objects a default value holds, in insertion order
KeyOrder == <<<<"a">>, <<"b">>>>

\* JSON.stringify(value) of a defined value
RECURSIVE JsonText(_)
JsonText(value) ==
    CASE value.t = "null" -> <<"null">>
      [] value.t = "undef" -> <<"null">>
      [] value.t = "bool" -> IF value.v THEN <<"true">> ELSE <<"false">>
      [] value.t = "num" -> NumText(value.v)
      [] value.t = "str" -> <<"\"">> \o value.v \o <<"\"">>
      [] value.t = "arr" ->
            <<"[">> \o JoinComma([n \in 1..Len(value.v) |-> JsonText(value.v[n])])
                   \o <<"]">>
      [] OTHER ->
            LET kept == SelectSeq(KeyOrder,
                            LAMBDA k : k \in DOMAIN value.v /\ value.v[k] # Undef)
            IN  <<"{">> \o JoinComma([n \in 1..Len(kept) |->
                                        <<"\"">> \o kept[n] \o <<"\":">>
                                            \o JsonText(value.v[kept[n]])])
                       \o <<"}">>

\* the lines one option adds to the help text
HelpOf(option) ==
    (IF option.hasFlag THEN option.flag ELSE <<"undefined">>)
        \o (IF option.isFlag THEN <<>> ELSE <<" <value>">>) \o <<"\n">>
        \o (IF Truthy(option.description)
            THEN <<"  ">> \o option.description.v \o <<"\n">> ELSE <<>>)
        \o (IF option.defaultValue # Undef
            THEN <<"  Default: ">> \o JsonText(option.defaultValue) \o <<"\n">>
            ELSE <<>>)
        \o <<"\n">>

RECURSIVE HelpLines(_, _)
HelpLines(O, n) == IF n = 0 THEN <<>> ELSE HelpLines(O, n - 1) \o HelpOf(O[n])

\* getHelpText()
getHelpText(O) ==
    Str(<<"Available configuration options:\n\n">> \o HelpLines(O, Len(O)))

(***************************************************************************)
(* Objects by reference                                                    *)
(*                                                                         *)
(* The heap is the sequence of the objects and arrays allocated so far; a  *)
(* property of an object holds a primitive value or a reference.  An array *)
(* keeps its elements, which are primitive here, and refers to the values  *)
(* of its named properties.                                                *)
(***************************************************************************)
Ref(a) == [t |-> "ref", a |-> a]
IsRef(v) == v.t = "ref"

\* typeof v === 'object' && v !== null && !Array.isArray(v)
IsMappingH(h, v) == IsRef(v) /\ h[v.a].t = "obj"

\* Array.isArray(v)
IsArrayH(h, v) == IsRef(v) /\ h[v.a].t = "arr"

\* typeof v === 'object'
TypeofObjectH(v) == IsRef(v) \/ v = Null

\* !!v
TruthyH(v) == IsRef(v) \/ Truthy(v)

\* v[key]
GetH(h, v, key) == IF IsRef(v) THEN Get(h[v.a], key) ELSE Get(v, key)

RECURSIVE StoreH(_, _)
RECURSIVE StoreKeys(_, _, _, _)

\* the tree v built of fresh objects: the heap after, and the value or the
\* reference to it
StoreH(h, v) ==
    IF v.t = "arr" THEN [heap |-> Append(h, v), v |-> Ref(Len(h) + 1)]
    ELSE IF v.t = "obj"
    THEN [heap |-> StoreKeys(Append(h, EmptyObj), Len(h) + 1, v, DOMAIN v.v),
          v |-> Ref(Len(h) + 1)]
    ELSE [heap |-> h, v |-> v]

StoreKeys(h, a, v, keys) ==
    IF keys = {} THEN h
    ELSE LET key == CHOOSE k \in keys : TRUE
             s == StoreH(h, v.v[key])
         IN  StoreKeys([s.heap EXCEPT ![a] = Put(@, key, s.v)], a, v, keys \ {key})

RECURSIVE Deref(_, _)

\* the tree that v is, or refers to
Deref(h, v) ==
    IF ~IsRef(v) THEN v
    ELSE IF h[v.a].t = "arr"
    THEN [h[v.a] EXCEPT !.p = [k \in DOMAIN h[v.a].p |-> Deref(h, h[v.a].p[k])]]
    ELSE Obj([k \in DOMAIN h[v.a].v |-> Deref(h, h[v.a].v[k])])

RECURSIVE Reach(_, _)

\* the addresses of the objects that v is made of
Reach(h, v) ==
    IF ~IsRef(v) THEN {}
    ELSE {v.a} \cup UNION {Reach(h, Props(h[v.a])[k]) :
                            k \in IF h[v.a].t = "arr" THEN DOMAIN h[v.a].p
                                  ELSE DOMAIN h[v.a].v}

\* the heap without the objects that nothing in roots leads to, the others
\* in the order they have, and the values of r as they are then called
Moved(v, live) ==
    IF IsRef(v) THEN Ref(Cardinality({b \in live : b <= v.a})) ELSE v

MovedCell(c, live) ==
    IF c.t = "arr" THEN [c EXCEPT !.p = [k \in DOMAIN c.p |-> Moved(c.p[k], live)]]
    ELSE Obj([k \in DOMAIN c.v |-> Moved(c.v[k], live)])

Collected(h, live) ==
    [n \in 1..Cardinality(live) |->
        MovedCell(h[CHOOSE a \in live : Cardinality({b \in live : b <= a}) = n], live)]

RECURSIVE deepMergeH(_, _, _)
RECURSIVE mergeKeysH(_, _, _, _, _)

\* a merge that writes the source's keys into the target itself
deepMergeH_InPlace(h, t, s) ==
    [heap |-> mergeKeysH(h, t.a, t, s, DOMAIN Props(h[s.a])), v |-> t]

\* deepMerge(target, source): the heap after, and the reference returned;
\* result is the object of line 58
deepMergeH(h, t, s) ==
    [heap |-> mergeKeysH(Append(h, Obj(Props(h[t.a]))), Len(h) + 1, t, s,
                         DOMAIN Props(h[s.a])),
     v |-> Ref(Len(h) + 1)]

\* the loop of deepMerge over the keys of the source not yet visited, with
\* result at address a
mergeKeysH(h, a, t, s, keys) ==
    IF keys = {} THEN h
    ELSE LET key == CHOOSE k \in keys : TRUE
             sv == Get(h[s.a], key)
             tv == Get(h[t.a], key)
             rest == keys \ {key}
         IN  IF sv = Undef THEN mergeKeysH(h, a, t, s, rest)
             ELSE IF IsMappingH(h, sv) /\ HasKey(h[t.a], key) /\ IsMappingH(h, tv)
             THEN LET m == deepMergeH(h, tv, sv)
                  IN  mergeKeysH([m.heap EXCEPT ![a] = Put(@, key, m.v)],
                                 a, t, s, rest)
             ELSE mergeKeysH([h EXCEPT ![a] = Put(@, key, sv)], a, t, s, rest)

RECURSIVE setPartsH(_, _, _, _)

\* setValueAtPath below the object at address a: the heap after
setPartsH(h, a, parts, value) ==
    IF Len(parts) = 1
    THEN [h EXCEPT ![a] = Put(@, parts[1], value)]
    ELSE LET part == parts[1]
             cur == Get(h[a], part)
         IN  IF ~HasKey(h[a], part) \/ cur = Null \/ ~TypeofObjectH(cur)
             THEN setPartsH(Append([h EXCEPT ![a] = Put(@, part, Ref(Len(h) + 1))],
                                   EmptyObj),
                            Len(h) + 1, Tail(parts), value)
             ELSE setPartsH(h, cur.a, Tail(parts), value)

setValueAtPathH(h, o, path, value) == setPartsH(h, o.a, Split(path), value)

RECURSIVE getPartsH(_, _, _)
getPartsH(h, current, parts) ==
    IF parts = <<>> THEN current
    ELSE IF current = Undef \/ current = Null THEN Undef
    ELSE getPartsH(h, GetH(h, current, parts[1]), Tail(parts))

getValueAtPathH(h, o, path) == getPartsH(h, o, Split(path))

RECURSIVE defaultsH(_, _, _, _, _)

\* the loop of createConfig over the options from the n-th on, writing the
\* default values dv into the object d
defaultsH(h, d, O, dv, n) ==
    IF n > Len(O) THEN h
    ELSE defaultsH(IF dv[n] # Undef THEN setValueAtPathH(h, d, O[n].path, dv[n])
                   ELSE h,
                   d, O, dv, n + 1)

\* createConfig: the heap after, and the reference to the merged tree; the
\* file's tree f and the command line's tree cli are built of fresh objects
createConfigH(h, O, dv, c, f, cli) ==
    LET d == Ref(Len(h) + 1)
        h1 == defaultsH(Append(h, EmptyObj), d, O, dv, 1)
        fs == StoreH(h1, f)
        cs == StoreH(fs.heap, cli)
        m1 == deepMergeH(Append(cs.heap, EmptyObj), Ref(Len(cs.heap) + 1), d)
        m2 == deepMergeH(m1.heap, m1.v, fs.v)
        m3 == deepMergeH(m2.heap, m2.v, c)
    IN  deepMergeH(m3.heap, m3.v, cs.v)

\* a setValue that copies the value's keys into the mapping found at the path
setValueH_MergesInPlace(h, c, path, value) ==
    IF IsMappingH(h, value) /\ IsMappingH(h, getValueAtPathH(h, c, path))
    THEN deepMergeH_InPlace(h, getValueAtPathH(h, c, path), value).heap
    ELSE setValueAtPathH(h, c, path, value)

\* setValue(path, value) on the tree that c refers to: the heap after
setValueH(h, c, path, value) ==
    IF IsMappingH(h, value)
    THEN LET got == getValueAtPathH(h, c, path)
             h1 == IF TruthyH(got) THEN h ELSE Append(h, EmptyObj)
             currentValue == IF TruthyH(got) THEN got ELSE Ref(Len(h) + 1)
         IN  IF TypeofObjectH(currentValue) /\ ~IsArrayH(h1, currentValue)
             THEN LET m == deepMergeH(h1, currentValue, value)
                  IN  setValueAtPathH(m.heap, c, path, m.v)
             ELSE setValueAtPathH(h1, c, path, value)
    ELSE setValueAtPathH(h, c, path, value)

\* the options with the default values as they are now
OptionsNow(h, O, dv) ==
    [n \in DOMAIN O |-> [O[n] EXCEPT !.defaultValue = Deref(h, dv[n])]]

(***************************************************************************)
(* Input universes                                                         *)
(***************************************************************************)
Ka == <<"a">>
Kb == <<"b">>
Keys == {Ka, Kb}

\* the objects whose keys are among Keys, with value sets Va at a and Vb at b
MapsOf(Va, Vb) ==
    {Obj(f) : f \in UNION {{g \in [D -> Va \cup Vb] :
                              /\ Ka \in D => g[Ka] \in Va
                              /\ Kb \in D => g[Kb] \in Vb} : D \in SUBSET Keys}}

\* one-level objects over a set of leaves
Flat(L) == MapsOf(L, L)

\* nested trees: a may hold an object whose a may hold an object again; the
\* other keys hold leaves
Nested(L) == MapsOf(L \cup MapsOf(L \cup MapsOf(L, {}), L), L)

TargetLeaves == {Undef, Null, Num(1), Arr(<<Num(1)>>)}
SourceLeaves == {Undef, Null, Num(2), Arr(<<Num(2)>>)}

\* the variables of the store, of parseCliArgs and of deepMerge at rest
NoFile == [given |-> FALSE, exists |-> FALSE, path |-> <<>>, read |-> Thrown(<<>>)]

IdleStore ==
    /\ file = NoFile
    /\ configuration = EmptyObj
    /\ config = EmptyObj
    /\ defaults = EmptyObj
    /\ fileConfig = EmptyObj
    /\ out = <<>>

IdleCli ==
    /\ i = 0
    /\ cliConfig = EmptyObj
    /\ looked = {}
    /\ called = <<>>
    /\ prev = [i |-> 0, cliConfig |-> EmptyObj, err |-> <<>>, called |-> <<>>]

IdleMerge ==
    /\ target = EmptyObj
    /\ source = EmptyObj
    /\ result = Undef
    /\ upper = EmptyObj

NoCall == [op |-> "none", thrown |-> FALSE, v |-> Undef]

IdleCalls ==
    /\ validators = <<>>
    /\ autoValidate = TRUE
    /\ outcome = NoCall
    /\ invoked = <<>>

IdlePaths ==
    /\ obj = EmptyObj
    /\ written = {}

IdleHeap ==
    /\ heap = <<>>
    /\ refs = <<>>

IdleRace == calls = <<>>

(***************************************************************************)
(* deepMerge on its own: every pair of a target and a source tree          *)
(***************************************************************************)
InitMerge ==
    /\ pc = "merge"
    /\ target \in Nested(TargetLeaves)
    /\ source \in Nested(SourceLeaves)
    /\ result = Undef
    /\ upper = EmptyObj
    /\ options = <<>>
    /\ args = <<>>
    /\ err = <<>>
    /\ IdleStore
    /\ IdleCli
    /\ IdleCalls
    /\ IdlePaths
    /\ IdleHeap
    /\ IdleRace

Merge ==
    /\ pc = "merge"
    /\ result' = deepMerge(target, source)
    /\ pc' = "merged"
    /\ UNCHANGED <<options, args, err, storeVars, cliVars, target, source, upper,
                   callVars,
                   pathVars, heapVars, raceVars>>

NextMerge == Merge

SpecMerge == InitMerge /\ [][NextMerge]_vars

(***************************************************************************)
(* Options, tokens and argument lists                                      *)
(***************************************************************************)
MaxArgs == 3

NoValidator == [kind |-> "none", min |-> 0, max |-> 0, returns |-> Undef]
Range(min, max) == [kind |-> "range", min |-> min, max |-> max, returns |-> Undef]
Returning(v) == [kind |-> "const", min |-> 0, max |-> 0, returns |-> v]

\* what a validator of the caller's may return
ValidatorResults ==
    {Bool(TRUE), Bool(FALSE), Str(<<"m">>), Str(<<>>), Undef, Num(0)}

Option(flag, path, defaultValue, parser, validator, isFlag) ==
    [hasFlag |-> TRUE, flag |-> flag, path |-> path, defaultValue |-> defaultValue,
     parser |-> parser, validator |-> validator, isFlag |-> isFlag,
     description |-> Undef]

\* an option with no flag: a default only
DefaultOnly(path, defaultValue) ==
    [hasFlag |-> FALSE, flag |-> <<>>, path |-> path, defaultValue |-> defaultValue,
     parser |-> "none", validator |-> NoValidator, isFlag |-> FALSE,
     description |-> Undef]

\* an option with a description
Described(option, text) == [option EXCEPT !.description = Str(text)]

FlagP == <<"-", "-", "p">>
FlagN == <<"-", "-", "n">>
FlagV == <<"-", "-", "v">>
FlagX == <<"x">>

PathAB == <<"a", ".", "b">>
PathA == <<"a">>
PathB == <<"b">>
PathBA == <<"b", ".", "a">>

\* --p <int> at a.b and --n <text> at b; the toggles --v and x
OptP(d, validator) == Option(FlagP, PathAB, d, "int", validator, FALSE)
OptN(d, validator) == Option(FlagN, PathB, d, "none", validator, FALSE)
OptV(path) == Option(FlagV, path, Undef, "none", NoValidator, TRUE)
OptX(path) == Option(FlagX, path, Undef, "none", NoValidator, TRUE)

NodeToken == <<"n", "o", "d", "e">>
NodeExeToken == <<"x", "n", "o", "d", "e", ".", "e", "x", "e">>

Tokens == {FlagP, FlagN, FlagV, FlagX, <<"3">>, <<"9">>, <<"-", "1">>, NodeToken}

SeqsUpTo(S, n) == UNION {[1..m -> S] : m \in 0..n}

\* argument lists over a set of tokens, as given and behind the two tokens
\* of a runtime invocation
ArgLists(S, n) ==
    SeqsUpTo(S, n) \cup {<<NodeExeToken, FlagV>> \o A : A \in SeqsUpTo(S, n - 1)}

\* the flag of a valued option twice: a value behind the first, nothing, a
\* toggle or an unmatched token in between, nothing or a value behind the
\* second
RepeatLists ==
    {<<f, t>> \o m \o <<f>> \o e :
        f \in {FlagP, FlagN}, t \in {<<"3">>, <<"9">>},
        m \in {<<>>, <<FlagV>>, <<FlagX>>, <<<<"-", "1">>>>},
        e \in {<<>>, <<<<"3">>>>, <<<<"9">>>>, <<FlagX>>}}

CliOptionLists ==
    {<<OptP(Undef, Range(1, 5)), OptN(Undef, vn), OptV(PathA), OptX(PathBA)>> :
        vn \in {NoValidator} \cup {Returning(r) : r \in ValidatorResults}}
    \cup {<<OptP(Undef, NoValidator), OptN(Undef, NoValidator), OptV(PathA),
            OptX(PathBA)>>}

(***************************************************************************)
(* Layers                                                                  *)
(***************************************************************************)
\* the trees with at most one entry, a leaf of L at a, at b or at a.b
OneEntry(L) ==
    {EmptyObj} \cup {setValueAtPath(EmptyObj, p, l) : p \in {PathA, PathB, PathAB}, l \in L}

FileTrees == OneEntry({Num(2), Null})
ExplicitTrees == OneEntry({Num(4), Undef, Arr(<<Num(4)>>)})

FilePath == <<"c">>
JsonError == <<"Unexpected end of JSON input">>

\* no path given, no file at the path, a file that is no JSON, a JSON object
Files ==
    {NoFile,
     [given |-> TRUE, exists |-> FALSE, path |-> FilePath, read |-> Thrown(<<>>)],
     [given |-> TRUE, exists |-> TRUE, path |-> FilePath, read |-> Thrown(JsonError)]}
    \cup {[given |-> TRUE, exists |-> TRUE, path |-> FilePath, read |-> Returned(tr)] :
            tr \in FileTrees}

CreateTokens == {FlagP, FlagX, <<"3">>}

CreateOptionLists ==
    {<<OptP(dp, Range(1, 5)), OptX(PathA), DefaultOnly(PathB, db)>> :
        dp \in {Undef, Num(1)}, db \in {Undef, Num(1), Obj(Ka :> Num(1))}}

(***************************************************************************)
(* parseCliArgs one iteration at a time                                    *)
(***************************************************************************)
\* every argument list
InitCli ==
    /\ pc = "cli"
    /\ options \in CliOptionLists
    /\ args \in ArgLists(Tokens, MaxArgs)
    /\ err = <<>>
    /\ IdleStore
    /\ IdleCli
    /\ IdleMerge
    /\ IdleCalls
    /\ IdlePaths
    /\ IdleHeap
    /\ IdleRace

\* let i = args[0]?.endsWith('node') || args[0]?.endsWith('node.exe') ? 2 : 0
CliStart ==
    /\ pc = "cli"
    /\ i' = StartIndex(args)
    /\ pc' = "loop"
    /\ UNCHANGED <<options, args, err, storeVars, cliConfig, looked, called, prev,
                   mergeVars, callVars, pathVars, heapVars, raceVars>>

Current == [i |-> i, cliConfig |-> cliConfig, err |-> err, called |-> called,
            looked |-> looked, kind |-> "start"]

\* one iteration of the loop that ends in the given branch
Iterate(kind) ==
    /\ LET st == Iteration(args, options, Current)
       IN  /\ st.kind = kind
           /\ i' = st.i
           /\ cliConfig' = st.cliConfig
           /\ err' = st.err
           /\ called' = st.called
           /\ looked' = st.looked
    /\ prev' = [i |-> i, cliConfig |-> cliConfig, err |-> err, called |-> called]
    /\ UNCHANGED <<pc, options, args, storeVars, mergeVars, callVars, pathVars,
                   heapVars, raceVars>>

SkipToken ==
    /\ pc = "loop"
    /\ i < Len(args)
    /\ Iterate("unmatched")

SetFlag ==
    /\ pc = "loop"
    /\ i < Len(args)
    /\ Iterate("flag")

WriteValue ==
    /\ pc = "loop"
    /\ i < Len(args)
    /\ Iterate("value")

ParserThrows ==
    /\ pc = "loop"
    /\ i < Len(args)
    /\ Iterate("parseError")

ValidatorMessage ==
    /\ pc = "loop"
    /\ i < Len(args)
    /\ Iterate("invalidMessage")

ValidatorFalse ==
    /\ pc = "loop"
    /\ i < Len(args)
    /\ Iterate("invalid")

MissingValue ==
    /\ pc = "loop"
    /\ i < Len(args)
    /\ Iterate("missing")

\* return cliConfig
CliReturn ==
    /\ pc = "loop"
    /\ i >= Len(args)
    /\ pc' = "returned"
    /\ UNCHANGED <<options, args, err, storeVars, cliVars, mergeVars, callVars,
                   pathVars, heapVars, raceVars>>

NextCli ==
    \/ CliStart
    \/ SkipToken
    \/ SetFlag
    \/ WriteValue
    \/ ParserThrows
    \/ ValidatorMessage
    \/ ValidatorFalse
    \/ MissingValue
    \/ CliReturn

SpecCli == InitCli /\ [][NextCli]_vars

InitRepeat ==
    /\ pc = "cli"
    /\ options \in CliOptionLists
    /\ args \in RepeatLists
    /\ err = <<>>
    /\ IdleStore
    /\ IdleCli
    /\ IdleMerge
    /\ IdleCalls
    /\ IdlePaths
    /\ IdleHeap
    /\ IdleRace

\* the loop is a sequential program: it takes its next step
SpecRepeat == InitRepeat /\ [][NextCli]_vars /\ WF_vars(NextCli)

(***************************************************************************)
(* Construction                                                            *)
(***************************************************************************)
\* every combination of the four layers
InitCreate ==
    /\ pc = "new"
    /\ options \in CreateOptionLists
    /\ args \in SeqsUpTo(CreateTokens, MaxArgs)
    /\ file \in Files
    /\ configuration \in ExplicitTrees
    /\ err = <<>>
    /\ config = EmptyObj
    /\ defaults = EmptyObj
    /\ fileConfig = EmptyObj
    /\ out = <<>>
    /\ IdleCli
    /\ IdleMerge
    /\ IdleCalls
    /\ IdlePaths
    /\ IdleHeap
    /\ IdleRace

\* new MikroConf({configFilePath, args, config, options}): createConfig builds
\* the defaults, reads the file, parses the arguments and merges the four layers
Construct ==
    /\ pc = "new"
    /\ LET cli == parseCliArgs(args, options)
           d == DefaultsOf(options, Len(options))
           f == IF FileLoaded(file) THEN file.read.v ELSE EmptyObj
       IN  /\ defaults' = d
           /\ fileConfig' = f
           /\ out' = IF FileLoaded(file)
                     THEN <<<<"Loaded configuration from ">> \o file.path>>
                     ELSE <<>>
           /\ err' = (IF FileFailed(file)
                      THEN <<<<"Error reading config file: ">> \o file.read.v.v>>
                      ELSE <<>>) \o cli.err
           /\ i' = cli.i
           /\ cliConfig' = cli.cliConfig
           /\ called' = cli.called
           /\ looked' = cli.looked
           /\ config' = MergeLayers(d, f, configuration, cli.cliConfig)
    /\ pc' = "ready"
    /\ UNCHANGED <<options, args, file, configuration, prev, mergeVars, callVars,
                   pathVars, heapVars, raceVars>>

NextCreate == Construct

SpecCreate == InitCreate /\ [][NextCreate]_vars

(***************************************************************************)
(* Construction from options that only give defaults                       *)
(***************************************************************************)
\* nothing, the falsy values and a mapping
DefaultValues == {Undef, Null, Bool(FALSE), Num(0), Str(<<>>), Obj(Kb :> Num(1))}

\* two defaults at a, a.b or b, in either order, and the option of --p
DefaultLists ==
    {<<DefaultOnly(p, d), DefaultOnly(q, e), OptP(Undef, NoValidator)>> :
        p \in {PathA, PathAB, PathB}, q \in {PathA, PathAB, PathB},
        d \in DefaultValues, e \in DefaultValues}

InitDefaults ==
    /\ pc = "new"
    /\ options \in DefaultLists
    /\ args \in {<<>>, <<FlagP, <<"3">>>>}
    /\ file \in Files
    /\ configuration \in ExplicitTrees
    /\ err = <<>>
    /\ config = EmptyObj
    /\ defaults = EmptyObj
    /\ fileConfig = EmptyObj
    /\ out = <<>>
    /\ IdleCli
    /\ IdleMerge
    /\ IdleCalls
    /\ IdlePaths
    /\ IdleHeap
    /\ IdleRace

SpecDefaults == InitDefaults /\ [][NextCreate]_vars

(***************************************************************************)
(* The public calls on a constructed store                                 *)
(***************************************************************************)
MinLength(min) == [kind |-> "minLength", min |-> min, max |-> 0, returns |-> Undef]

ValidatorConfig(path, validator, message) ==
    [path |-> path, validator |-> validator, message |-> message]

\* a range rule on a.b, a length rule on a, and rules on b whose validator
\* gives the same result for every tree
RangeRule == ValidatorConfig(PathAB, Range(1, 5), Str(<<"r">>))
LengthRule == ValidatorConfig(PathA, MinLength(1), Str(<<"l">>))
ConstRule(r, message) == ValidatorConfig(PathB, Returning(r), Str(message))

Rules ==
    {RangeRule, LengthRule, ConstRule(Bool(FALSE), <<>>)}
    \cup {ConstRule(r, <<"s">>) :
            r \in {Bool(TRUE), Bool(FALSE), Str(<<"m">>), Str(<<>>), Undef}}

\* no rule, one rule, and two rules in either order
ValidatorLists ==
    SeqsUpTo(Rules, 1)
    \cup {<<r1, r2>> : r1 \in {ConstRule(Bool(TRUE), <<"s">>), ConstRule(Undef, <<"s">>),
                               ConstRule(Bool(FALSE), <<"s">>), LengthRule},
                       r2 \in {RangeRule, ConstRule(Str(<<"m">>), <<"s">>)}}
    \cup {<<RangeRule, LengthRule>>}

StoreOptions ==
    <<OptP(Undef, Range(1, 5)),
      Described(OptX(PathB), <<"d">>),
      DefaultOnly(PathB, Obj(Ka :> Num(1)))>>

StoreTrees == {EmptyObj, setValueAtPath(EmptyObj, PathAB, Num(9))}

SetPaths == {PathA, PathAB}
SetValues ==
    {Null, Bool(FALSE), Num(0), Num(3), Str(<<>>), Arr(<<Num(1)>>),
     Obj(Kb :> Num(9)), Obj(Kb :> Undef)}
Fallbacks == {Undef, Num(7)}

\* a store about to be constructed, with its validators and autoValidate
InitStore ==
    /\ pc = "new"
    /\ options = StoreOptions
    /\ args \in {<<>>, <<FlagP, <<"3">>>>}
    /\ file = NoFile
    /\ configuration \in StoreTrees
    /\ validators \in ValidatorLists
    /\ autoValidate \in BOOLEAN
    /\ outcome = NoCall
    /\ invoked = <<>>
    /\ err = <<>>
    /\ config = EmptyObj
    /\ defaults = EmptyObj
    /\ fileConfig = EmptyObj
    /\ out = <<>>
    /\ IdleCli
    /\ IdleMerge
    /\ IdlePaths
    /\ IdleHeap
    /\ IdleRace

\* a public call that leaves the store as it is
Called(op, r) ==
    /\ outcome' = [op |-> op, thrown |-> r.thrown, v |-> r.v]
    /\ invoked' = r.invoked
    /\ UNCHANGED <<pc, options, args, err, storeVars, cliVars, mergeVars,
                   validators, autoValidate, pathVars, heapVars, raceVars>>

ValidateCall ==
    /\ pc = "ready"
    /\ Called("validate", validate(config, validators))

GetCall ==
    /\ pc = "ready"
    /\ Called("get", get(config, validators, autoValidate))

GetValueCall ==
    /\ pc = "ready"
    /\ \E path \in SetPaths, defaultValue \in Fallbacks :
        Called("getValue", [thrown |-> FALSE, invoked |-> <<>>,
                            v |-> [path |-> path, defaultValue |-> defaultValue,
                                   value |-> getValue(config, path, defaultValue)]])

SetValueCall ==
    /\ pc = "ready"
    /\ \E path \in SetPaths, value \in SetValues :
        /\ config' = setValue(config, path, value)
        /\ outcome' = [op |-> "setValue", thrown |-> FALSE,
                       v |-> [path |-> path, value |-> value]]
    /\ invoked' = <<>>
    /\ UNCHANGED <<pc, options, args, err, file, configuration, defaults,
                   fileConfig, out, cliVars, mergeVars, validators, autoValidate,
                   pathVars, heapVars, raceVars>>

GetHelpTextCall ==
    /\ pc = "ready"
    /\ Called("getHelpText", [thrown |-> FALSE, invoked |-> <<>>,
                              v |-> getHelpText(options)])

NextStore ==
    \/ Construct
    \/ ValidateCall
    \/ GetCall
    \/ GetValueCall
    \/ SetValueCall
    \/ GetHelpTextCall

SpecStore == InitStore /\ [][NextStore]_vars

(***************************************************************************)
(* The store and its caller's objects, held by reference                   *)
(***************************************************************************)
\* options whose defaults are a mapping at b; a mapping at a and a number
\* below it; numbers only
RefOptionLists ==
    {StoreOptions,
     <<DefaultOnly(PathA, Obj(Ka :> Num(1))), DefaultOnly(PathAB, Num(2)),
       OptP(Undef, Range(1, 5))>>,
     <<OptP(Num(1), Range(1, 5)), Described(OptX(PathB), <<"d">>),
       DefaultOnly(PathB, Num(1))>>}

\* explicit objects with a nested mapping
RefTrees ==
    {EmptyObj, Obj(Ka :> Obj(Kb :> Num(4))), Obj(Kb :> Obj(Kb :> Num(4)))}

RefPaths == {PathAB, PathB, PathBA}
RefValues == {Num(9), Obj(Kb :> Num(9))}

RECURSIVE StoreDefaults(_, _, _)

\* the default values of the options from the n-th on, as the caller built
\* them: the heap after, and the values or references
StoreDefaults(h, O, n) ==
    IF n > Len(O) THEN [heap |-> h, v |-> <<>>]
    ELSE LET s == StoreH(h, O[n].defaultValue)
             r == StoreDefaults(s.heap, O, n + 1)
         IN  [heap |-> r.heap, v |-> <<s.v>> \o r.v]

InitRefs ==
    /\ pc = "new"
    /\ options \in RefOptionLists
    /\ args \in {<<>>, <<FlagP, <<"3">>>>}
    /\ file = NoFile
    /\ configuration \in RefTrees
    /\ validators = <<RangeRule>>
    /\ autoValidate = TRUE
    /\ LET c == StoreH(<<>>, configuration)
           d == StoreDefaults(c.heap, options, 1)
       IN  /\ heap = d.heap
           /\ refs = [configuration |-> c.v, defaultValue |-> d.v, config |-> Undef]
    /\ outcome = NoCall
    /\ invoked = <<>>
    /\ err = <<>>
    /\ config = EmptyObj
    /\ defaults = EmptyObj
    /\ fileConfig = EmptyObj
    /\ out = <<>>
    /\ IdleCli
    /\ IdleMerge
    /\ IdlePaths
    /\ IdleRace

\* the objects that the caller and the store still hold
Held(h, r) ==
    Reach(h, r.configuration) \cup Reach(h, r.config)
        \cup UNION {Reach(h, r.defaultValue[n]) : n \in DOMAIN r.defaultValue}

\* the heap h and the references r after a step: what is no longer held is
\* collected
Kept(h, r) ==
    /\ heap' = Collected(h, Held(h, r))
    /\ refs' = [configuration |-> Moved(r.configuration, Held(h, r)),
                config |-> Moved(r.config, Held(h, r)),
                defaultValue |-> [n \in DOMAIN r.defaultValue |->
                                    Moved(r.defaultValue[n], Held(h, r))]]

\* new MikroConf({args, config, options, validators, autoValidate}), with the
\* objects of the caller
ConstructRefs ==
    /\ pc = "new"
    /\ LET cli == parseCliArgs(args, options)
           m == createConfigH(heap, options, refs.defaultValue, refs.configuration,
                              EmptyObj, cli.cliConfig)
       IN  /\ defaults' = DefaultsOf(options, Len(options))
           /\ err' = cli.err
           /\ i' = cli.i
           /\ cliConfig' = cli.cliConfig
           /\ called' = cli.called
           /\ looked' = cli.looked
           /\ Kept(m.heap, [refs EXCEPT !.config = m.v])
           /\ config' = Deref(m.heap, m.v)
    /\ pc' = "ready"
    /\ UNCHANGED <<options, args, file, configuration, fileConfig, out, prev,
                   mergeVars, callVars, pathVars, raceVars>>

\* setValue(path, value), the value built by the caller for the call
SetValueRefs ==
    /\ pc = "ready"
    /\ \E path \in RefPaths, value \in RefValues :
        LET s == StoreH(heap, value)
            h == setValueH(s.heap, refs.config, path, s.v)
        IN  /\ Kept(h, refs)
            /\ config' = Deref(h, refs.config)
            /\ outcome' = [op |-> "setValue", thrown |-> FALSE,
                           v |-> [path |-> path, value |-> value]]
    /\ invoked' = <<>>
    /\ UNCHANGED <<pc, options, args, err, file, configuration, defaults,
                   fileConfig, out, cliVars, mergeVars, validators, autoValidate,
                   pathVars, raceVars>>

\* the text of getHelpText() now
HelpNow == getHelpText(OptionsNow(heap, options, refs.defaultValue))

GetHelpTextRefs ==
    /\ pc = "ready"
    /\ Called("getHelpText", [thrown |-> FALSE, invoked |-> <<>>, v |-> HelpNow])

NextRefs ==
    \/ ConstructRefs
    \/ ValidateCall
    \/ GetCall
    \/ GetValueCall
    \/ SetValueRefs
    \/ GetHelpTextRefs

SpecRefs == InitRefs /\ [][NextRefs]_vars

(***************************************************************************)
(* Two setValue calls with a mapping value, interleaved                    *)
(*                                                                         *)
(* A call is two steps: the read and the merge of lines 254 to 256, and    *)
(* the write of line 257 or 263.  The program itself runs each call to its *)
(* end; the steps of two calls are interleaved here to see what a caller   *)
(* that does not coordinate them would get.                                *)
(***************************************************************************)
Callers == {1, 2}

\* a merge that drops what was read
setValueRead_Overwrites(cfg, path, value) == value

\* what setValue(path, value) is about to write: lines 254 to 256, or the
\* value itself on the way to line 263
setValueRead(cfg, path, value) ==
    LET got == getValueAtPath(cfg, path)
        currentValue == IF Truthy(got) THEN got ELSE EmptyObj
    IN  IF IsMapping(value) /\ TypeofObject(currentValue) /\ currentValue.t # "arr"
        THEN deepMerge(currentValue, value)
        ELSE value

RaceTrees ==
    {EmptyObj,
     Obj(Ka :> Num(2)),
     Obj(Ka :> Obj(Ka :> Num(0))),
     Obj(Ka :> Obj(Kb :> Obj(Ka :> Num(0)))),
     Obj(Ka :> Arr(<<Num(2)>>))}

RaceValues == {Obj(Ka :> Num(1)), Obj(Kb :> Num(9)), Obj((Ka :> Num(1)) @@ (Kb :> Num(1)))}

InitRace ==
    /\ pc = "race"
    /\ config \in RaceTrees
    /\ \E path \in {PathA, PathAB} :
        calls \in [Callers -> {[pc |-> "called", path |-> path, value |-> value,
                                toWrite |-> Undef, readLast |-> FALSE,
                                wroteLast |-> FALSE] : value \in RaceValues}]
    /\ file = NoFile
    /\ configuration = EmptyObj
    /\ defaults = EmptyObj
    /\ fileConfig = EmptyObj
    /\ out = <<>>
    /\ options = <<>>
    /\ args = <<>>
    /\ err = <<>>
    /\ IdleCli
    /\ IdleMerge
    /\ IdleCalls
    /\ IdlePaths
    /\ IdleHeap

\* the other caller
Other(c) == CHOOSE o \in Callers : o # c

\* lines 254 to 256 of call c: read the current value and merge
RaceRead ==
    /\ pc = "race"
    /\ \E c \in Callers :
        /\ calls[c].pc = "called"
        /\ calls' = [calls EXCEPT
                        ![c].pc = "read",
                        ![c].toWrite = setValueRead(config, calls[c].path, calls[c].value),
                        ![c].readLast = calls[Other(c)].pc = "returned"]
    /\ UNCHANGED <<pc, options, args, err, storeVars, cliVars, mergeVars, callVars,
                   pathVars, heapVars>>

\* line 257 (or 263) of call c: write
RaceWrite ==
    /\ pc = "race"
    /\ \E c \in Callers :
        /\ calls[c].pc = "read"
        /\ config' = setValueAtPath(config, calls[c].path, calls[c].toWrite)
        /\ calls' = [calls EXCEPT
                        ![c].pc = "returned",
                        ![c].wroteLast = calls[Other(c)].pc = "returned"]
    /\ UNCHANGED <<pc, options, args, err, file, configuration, defaults,
                   fileConfig, out, cliVars, mergeVars, callVars, pathVars, heapVars>>

NextRace == RaceRead \/ RaceWrite

SpecRace == InitRace /\ [][NextRace]_vars

(***************************************************************************)
(* setValueAtPath and getValueAtPath on their own                          *)
(***************************************************************************)
PathA0 == <<"a", ".", "0">>
PathABA == <<"a", ".", "b", ".", "a">>

WritePaths == {PathA, PathB, PathAB, PathA0, PathBA, PathABA}

\* nested objects, arrays, booleans, numbers and null
WriteValues ==
    {Num(1), Null, Bool(FALSE), Arr(<<Num(1)>>), Obj(Ka :> Obj(Kb :> Num(1)))}

\* trees that hold nothing, a string, an array, a mapping, null or a number
\* at a
PathTrees ==
    {EmptyObj,
     Obj(Ka :> Str(<<"x">>)),
     Obj(Ka :> Arr(<<Num(2)>>)),
     Obj(Ka :> Obj(Kb :> Num(2))),
     Obj(Ka :> Obj((Ka :> Num(2)) @@ (Kb :> Str(<<"x">>)))),
     Obj((Ka :> Null) @@ (Kb :> Num(2))),
     Obj((Ka :> Num(2)) @@ (Kb :> Obj(Ka :> Num(2))))}

\* the parts of p are the first parts of q
IsPrefix(p, q) ==
    /\ Len(Split(p)) <= Len(Split(q))
    /\ SubSeq(Split(q), 1, Len(Split(p))) = Split(p)

\* neither path is a prefix of the other
Disjoint(p, q) == ~IsPrefix(p, q) /\ ~IsPrefix(q, p)

InitPath ==
    /\ pc = "path"
    /\ obj \in PathTrees
    /\ written = {}
    /\ options = <<>>
    /\ args = <<>>
    /\ err = <<>>
    /\ IdleStore
    /\ IdleCli
    /\ IdleMerge
    /\ IdleCalls
    /\ IdleHeap
    /\ IdleRace

\* setValueAtPath(obj, path, value) at a path disjoint from those written
Write ==
    /\ pc = "path"
    /\ \E path \in WritePaths, value \in WriteValues :
        /\ \A w \in written : Disjoint(w.path, path)
        /\ obj' = setValueAtPath(obj, path, value)
        /\ written' = written \cup {[path |-> path, value |-> value]}
        /\ outcome' = [op |-> "setValueAtPath", thrown |-> FALSE,
                       v |-> [path |-> path, value |-> value]]
    /\ UNCHANGED <<pc, options, args, err, storeVars, cliVars, mergeVars,
                   validators, autoValidate, invoked, heapVars, raceVars>>

\* getValueAtPath(obj, path)
Read ==
    /\ pc = "path"
    /\ \E path \in WritePaths :
        outcome' = [op |-> "getValueAtPath", thrown |-> FALSE,
                    v |-> [path |-> path, value |-> getValueAtPath(obj, path)]]
    /\ UNCHANGED <<pc, options, args, err, storeVars, cliVars, mergeVars,
                   validators, autoValidate, invoked, pathVars, heapVars, raceVars>>

NextPath == Write \/ Read

SpecPath == InitPath /\ [][NextPath]_vars

(***************************************************************************)
(* Two merges in a row: three layers, lowest first                         *)
(***************************************************************************)
\* the upper layers merged first
MergeThree_UpperFirst(a, b, c) == deepMerge(a, deepMerge(b, c))

\* mergedConfig = deepMerge(mergedConfig, next), twice
MergeThree(a, b, c) == deepMerge(deepMerge(a, b), c)

\* what a layer holds at a: a number, null, undefined, an array or a mapping
LayerValues ==
    {Num(5), Null, Undef, Arr(<<Num(5)>>), Obj(Ka :> Num(1)), Obj(Kb :> Num(2)),
     Obj(Ka :> Obj(Ka :> Num(1))), Obj(Ka :> Num(5)), Obj(Ka :> Obj(Kb :> Num(2)))}

LayerTrees == {EmptyObj} \cup {Obj(Ka :> x) : x \in LayerValues}

InitMergeThree ==
    /\ pc = "merge"
    /\ target \in LayerTrees
    /\ source \in LayerTrees
    /\ upper \in LayerTrees
    /\ result = Undef
    /\ options = <<>>
    /\ args = <<>>
    /\ err = <<>>
    /\ IdleStore
    /\ IdleCli
    /\ IdleCalls
    /\ IdlePaths
    /\ IdleHeap
    /\ IdleRace

\* deepMerge(deepMerge(target, source), upper)
MergeTwice ==
    /\ pc = "merge"
    /\ result' = MergeThree(target, source, upper)
    /\ pc' = "merged"
    /\ UNCHANGED <<options, args, err, storeVars, cliVars, target, source, upper,
                   callVars, pathVars, heapVars, raceVars>>

NextMergeThree == MergeTwice

SpecMergeThree == InitMergeThree /\ [][NextMergeThree]_vars

(***************************************************************************)
(* deepMerge on objects held by reference                                  *)
(***************************************************************************)
InitMergeRefs ==
    /\ pc = "merge"
    /\ target \in Nested(TargetLeaves)
    /\ source \in Nested(SourceLeaves)
    /\ result = Undef
    /\ upper = EmptyObj
    /\ LET t == StoreH(<<>>, target)
           s == StoreH(t.heap, source)
       IN  /\ heap = s.heap
           /\ refs = [target |-> t.v, source |-> s.v, result |-> Undef]
    /\ options = <<>>
    /\ args = <<>>
    /\ err = <<>>
    /\ IdleStore
    /\ IdleCli
    /\ IdleCalls
    /\ IdlePaths
    /\ IdleRace

\* deepMerge(target, source)
MergeRefs ==
    /\ pc = "merge"
    /\ LET m == deepMergeH(heap, refs.target, refs.source)
       IN  /\ heap' = m.heap
           /\ refs' = [refs EXCEPT !.result = m.v]
           /\ result' = Deref(m.heap, m.v)
    /\ pc' = "merged"
    /\ UNCHANGED <<options, args, err, storeVars, cliVars, target, source, upper,
                   callVars, pathVars, raceVars>>

NextMergeRefs == MergeRefs

SpecMergeRefs == InitMergeRefs /\ [][NextMergeRefs]_vars

(***************************************************************************)
(* Properties of deepMerge                                                 *)
(***************************************************************************)
Merged == pc = "merged"

\* the keys at which both sides hold a mapping
BothMappings(t, s) ==
    {k \in DOMAIN t \cap DOMAIN s : IsMapping(t[k]) /\ IsMapping(s[k])}

\* C2 as stated: at every key where both sides hold a mapping, the result holds
\* a mapping with every sub-key of either side, the source's value at every
\* shared sub-key and the target's value at the sub-keys of the target alone;
\* the keys of the target alone keep their values.
C2_AsStated ==
    Merged =>
        LET t == target.v
            s == source.v
            r == result.v
        IN  /\ \A k \in BothMappings(t, s) :
                /\ IsMapping(r[k])
                /\ DOMAIN r[k].v = DOMAIN t[k].v \cup DOMAIN s[k].v
                /\ \A j \in DOMAIN s[k].v : r[k].v[j] = s[k].v[j]
                /\ \A j \in DOMAIN t[k].v \ DOMAIN s[k].v : r[k].v[j] = t[k].v[j]
            /\ \A k \in DOMAIN t \ DOMAIN s : k \in DOMAIN r /\ r[k] = t[k]

\* what the merge of two mappings holds at sub-key j
RECURSIVE MergedAt(_, _, _)
MergedAt(t, s, r) ==
    /\ DOMAIN r = DOMAIN t \cup {j \in DOMAIN s : s[j] # Undef}
    /\ \A j \in DOMAIN r :
        IF j \notin DOMAIN s \/ s[j] = Undef THEN r[j] = t[j]
        ELSE IF j \in BothMappings(t, s)
             THEN IsMapping(r[j]) /\ MergedAt(t[j].v, s[j].v, r[j].v)
             ELSE r[j] = s[j]

\* C2 (amended): at every key where both sides hold a mapping, the result holds
\* a mapping with every sub-key of the target and every sub-key of the source
\* whose value is defined; at a sub-key the source defines, the source's value
\* wins unless both sides hold mappings there, which are merged in the same way;
\* at a sub-key the source lacks or holds as undefined, the target's value
\* stays.  The keys of the target alone keep their values.
C2_RecursiveMerge ==
    Merged =>
        LET t == target.v
            s == source.v
            r == result.v
        IN  /\ \A k \in BothMappings(t, s) :
                IsMapping(r[k]) /\ MergedAt(t[k].v, s[k].v, r[k].v)
            /\ \A k \in DOMAIN t \ DOMAIN s : k \in DOMAIN r /\ r[k] = t[k]

\* a merge of two nested mappings with a sub-key on each side alone and a
\* shared one, beside a key of the target alone
C2_Witness ==
    /\ Merged
    /\ Ka \in BothMappings(target.v, source.v)
    /\ target.v[Ka].v = (Ka :> Num(1))
    /\ source.v[Ka].v = (Ka :> Num(2) @@ Kb :> Num(2))
    /\ Kb \in DOMAIN target.v \ DOMAIN source.v
    /\ result.v[Ka].v = (Ka :> Num(2) @@ Kb :> Num(2))

\* a key is replaced when the source defines it and the sides are not both mappings
RECURSIVE ReplacedAt(_, _, _)
ReplacedAt(t, s, r) ==
    \A k \in DOMAIN s :
        IF k \in BothMappings(t, s)
        THEN ReplacedAt(t[k].v, s[k].v, r[k].v)
        ELSE s[k] # Undef => k \in DOMAIN r /\ r[k] = s[k]

\* C3: at every key whose source value is defined and where the two sides are
\* not both mappings, the result is exactly the source value; an array is
\* replaced whole.
C3_SourceReplaces == Merged => ReplacedAt(target.v, source.v, result.v)

\* an array over an array, a null over a mapping and a mapping over a scalar
C3_Witness ==
    /\ Merged
    /\ Ka \in BothMappings(target.v, source.v)
    /\ target.v[Ka].v = (Ka :> Arr(<<Num(1)>>) @@ Kb :> Num(1))
    /\ source.v[Ka].v = (Ka :> Arr(<<Num(2)>>) @@ Kb :> Null)
    /\ result.v[Ka].v = (Ka :> Arr(<<Num(2)>>) @@ Kb :> Null)
    /\ Kb \in DOMAIN target.v /\ Kb \in DOMAIN source.v
    /\ target.v[Kb] = Arr(<<Num(1)>>)
    /\ source.v[Kb] = Arr(<<Num(2)>>)

\* an undefined source value leaves the key as the target has it
RECURSIVE SkippedAt(_, _, _)
SkippedAt(t, s, r) ==
    \A k \in DOMAIN s :
        IF s[k] = Undef
        THEN IF k \in DOMAIN t THEN k \in DOMAIN r /\ r[k] = t[k]
             ELSE k \notin DOMAIN r
        ELSE k \in BothMappings(t, s) =>
                IsMapping(r[k]) /\ SkippedAt(t[k].v, s[k].v, r[k].v)

\* C4: a key whose source value is undefined is skipped: the result holds the
\* target's value there if the target has the key and lacks the key otherwise,
\* at every depth the merge reaches.
C4_UndefinedSkipped == Merged => SkippedAt(target.v, source.v, result.v)

\* undefined over a value and undefined at an absent key, one level down
C4_Witness ==
    /\ Merged
    /\ Ka \in BothMappings(target.v, source.v)
    /\ target.v[Ka].v = (Ka :> Num(1))
    /\ source.v[Ka].v = (Ka :> Undef @@ Kb :> Undef)
    /\ result.v[Ka].v = (Ka :> Num(1))
    /\ Kb \in DOMAIN source.v /\ source.v[Kb] = Undef /\ Kb \notin DOMAIN target.v

(***************************************************************************)
(* Properties of parseCliArgs                                              *)
(***************************************************************************)
\* at least one iteration has run: prev holds the state before the last one
Iterated == pc \in {"loop", "returned"} /\ looked # {}
LoopDone == pc = "returned"

\* the token at 0-based position k
TokenAt(k) == args[k + 1]

\* the options whose flag is the token at position k
Matching(k) == {n \in 1..Len(options) :
                    options[n].hasFlag /\ options[n].flag = TokenAt(k)}

\* a token follows position k and does not begin with '-'
HasValue(k) == k + 1 < Len(args) /\ TokenAt(k + 1)[1] # "-"

\* C5: when the token equals the flag of an isFlag option, true is written at
\* the option's path, nothing is printed and one token is consumed: the token
\* that follows, if any, is looked up as a flag itself.
C5_FlagConsumesOne ==
    /\ Iterated =>
        \A n \in Matching(prev.i) :
            options[n].isFlag =>
                /\ getValueAtPath(cliConfig, options[n].path) = Bool(TRUE)
                /\ i = prev.i + 1
                /\ err = prev.err
    /\ LoopDone =>
        \A k \in looked : \A n \in Matching(k) :
            options[n].isFlag /\ k + 1 < Len(args) => k + 1 \in looked

\* --v x: both toggles are set, x after --v is looked up as the flag it is
C5_Witness ==
    /\ LoopDone
    /\ args = <<FlagV, FlagX>>
    /\ looked = {0, 1}
    /\ getValueAtPath(cliConfig, PathA) = Bool(TRUE)
    /\ getValueAtPath(cliConfig, PathBA) = Bool(TRUE)

\* C6: when the token matches an option that is no flag and a next token exists
\* that does not begin with '-', the next token is consumed as the raw value
\* (two tokens in all) and is never looked up as a flag, even when it equals
\* a declared flag.
C6_ValueConsumed ==
    /\ Iterated =>
        \A n \in Matching(prev.i) :
            ~options[n].isFlag /\ HasValue(prev.i) =>
                /\ i = prev.i + 2
                /\ prev.i + 1 \notin looked
                /\ options[n].parser = "none" /\ options[n].validator.kind = "none"
                    => getValueAtPath(cliConfig, options[n].path)
                            = Str(TokenAt(prev.i + 1))
    /\ LoopDone =>
        \A k \in looked : \A n \in Matching(k) :
            ~options[n].isFlag /\ HasValue(k) => k + 1 \notin looked

\* --n x: x is a declared flag, and here it is the value of --n
C6_Witness ==
    /\ LoopDone
    /\ args = <<FlagN, FlagX>>
    /\ options[2].validator.kind = "none"
    /\ looked = {0}
    /\ cliConfig = Obj(Kb :> Str(FlagX))

\* C7: when the token matches an option that is no flag and no next token
\* exists or the next token begins with '-', the one diagnostic 'Missing value
\* for option <flag>' is printed, nothing is written, no validator is called and
\* the flag token alone is consumed: the token that follows, if any, is looked
\* up as a flag.
C7_MissingValue ==
    /\ Iterated =>
        \A n \in Matching(prev.i) :
            ~options[n].isFlag /\ ~HasValue(prev.i) =>
                /\ err = Append(prev.err,
                                <<"Missing value for option ">> \o TokenAt(prev.i))
                /\ cliConfig = prev.cliConfig
                /\ called = prev.called
                /\ i = prev.i + 1
    /\ LoopDone =>
        \A k \in looked : \A n \in Matching(k) :
            ~options[n].isFlag /\ ~HasValue(k) /\ k + 1 < Len(args)
                => k + 1 \in looked

\* --n --v --n: --n twice without a value, --v between them is set
C7_Witness ==
    /\ LoopDone
    /\ args = <<FlagN, FlagV, FlagN>>
    /\ looked = {0, 1, 2}
    /\ err = <<<<"Missing value for option ">> \o FlagN,
               <<"Missing value for option ">> \o FlagN>>
    /\ cliConfig = Obj(Ka :> Bool(TRUE))

\* what the parser of option o makes of the token at position k
ParsedAt(o, k) ==
    IF o.parser = "int" THEN ParserInt(TokenAt(k)) ELSE Returned(Str(TokenAt(k)))

\* C9: a declared validator is called on the parser's output (on the raw token
\* when there is no parser) and its result decides: true accepts; a string
\* rejects with 'Invalid value for <flag>: <string>'; false rejects with
\* 'Invalid value for <flag>' and nothing after the flag; any other result
\* accepts.  The value is written at the option's path if and only if accepted.
C9_ValidatorDecides ==
    Iterated =>
        \A n \in Matching(prev.i) :
            LET o == options[n]
                parsed == ParsedAt(o, prev.i + 1)
                r == CallValidator(o.validator, parsed.v)
            IN  (/\ ~o.isFlag
                 /\ HasValue(prev.i)
                 /\ o.validator.kind # "none"
                 /\ ~parsed.thrown) =>
                    /\ called = Append(prev.called,
                                       [flag |-> o.flag, value |-> parsed.v])
                    /\ CASE r = Bool(FALSE) ->
                                /\ err = Append(prev.err,
                                                <<"Invalid value for ">> \o o.flag)
                                /\ cliConfig = prev.cliConfig
                         [] r.t = "str" ->
                                /\ err = Append(prev.err, <<"Invalid value for ">>
                                                \o o.flag \o <<": ">> \o r.v)
                                /\ cliConfig = prev.cliConfig
                         [] OTHER ->
                                /\ err = prev.err
                                /\ cliConfig = setValueAtPath(prev.cliConfig, o.path,
                                                              parsed.v)
                                /\ getValueAtPath(cliConfig, o.path) = parsed.v

\* --n 3 under a validator that returns false: the diagnostic ends at the flag
C9_Witness ==
    /\ LoopDone
    /\ args = <<FlagN, <<"3">>>>
    /\ options[2].validator = Returning(Bool(FALSE))
    /\ called = <<[flag |-> FlagN, value |-> Str(<<"3">>)]>>
    /\ err = <<<<"Invalid value for ", "-", "-", "n">>>>
    /\ cliConfig = EmptyObj

\* the validator of option o rejects the value the parser made at position k
Rejects(o, k) ==
    /\ o.validator.kind # "none"
    /\ LET r == CallValidator(o.validator, ParsedAt(o, k).v)
       IN  r = Bool(FALSE) \/ r.t = "str"

\* the option matched at position k fails, or is accepted
Fails(k) ==
    \E n \in Matching(k) :
        /\ ~options[n].isFlag
        /\ \/ ~HasValue(k)
           \/ ParsedAt(options[n], k + 1).thrown
           \/ Rejects(options[n], k + 1)

Accepted(k) == Matching(k) # {} /\ ~Fails(k)

\* the value an accepted option at position k writes
Written(o, k) == IF o.isFlag THEN Bool(TRUE) ELSE ParsedAt(o, k + 1).v

\* C10: every matched option that fails (thrown parser, rejecting validator,
\* missing value) prints exactly one diagnostic and every other token prints
\* none; an accepted option is written however many options failed before it;
\* the loop runs to the end of the list, every token being looked up or taken
\* as a value.
C10_OneDiagnosticEach ==
    /\ Iterated =>
        /\ Fails(prev.i) => Len(err) = Len(prev.err) + 1
        /\ ~Fails(prev.i) => err = prev.err
        /\ Accepted(prev.i) =>
            \A n \in Matching(prev.i) :
                getValueAtPath(cliConfig, options[n].path)
                    = Written(options[n], prev.i)
    /\ LoopDone =>
        /\ i >= Len(args)
        /\ Len(err) = Cardinality({k \in looked : Fails(k)})
        /\ \A k \in StartIndex(args)..(Len(args) - 1) :
            \/ k \in looked
            \/ /\ k - 1 \in looked
               /\ \E n \in Matching(k - 1) : ~options[n].isFlag /\ HasValue(k - 1)

\* --n --n --v: two options fail, the third is accepted and written
C10_Witness ==
    /\ LoopDone
    /\ args = <<FlagN, FlagN, FlagV>>
    /\ Len(err) = 2
    /\ Fails(0) /\ Fails(1) /\ Accepted(2)
    /\ getValueAtPath(cliConfig, PathA) = Bool(TRUE)

(***************************************************************************)
(* Properties of the construction                                          *)
(***************************************************************************)
MaxPathLen == 2

Ready == pc = "ready"

\* the four layers, lowest first
Layers == <<defaults, fileConfig, configuration, cliConfig>>

\* the paths of up to MaxPathLen keys, as their segments
AllParts == UNION {[1..m -> Keys] : m \in 1..MaxPathLen}

ProperPrefixes(parts) == {SubSeq(parts, 1, m) : m \in 1..(Len(parts) - 1)}

\* the last layer that defines the path, 0 if none does
LastDefining(parts) ==
    LET defining == {n \in 1..4 : getParts(Layers[n], parts) # Undef}
    IN  IF defining = {} THEN 0
        ELSE CHOOSE n \in defining : \A m \in defining : m <= n

\* C1 as stated: the live value at every path is the value of the last layer
\* that defines the path.
C1_AsStated ==
    Ready =>
        \A parts \in AllParts :
            LET n == LastDefining(parts)
            IN  n # 0 => getParts(config, parts) = getParts(Layers[n], parts)

\* C1 (amended): where the last layer L that defines a path holds a value that
\* is no mapping, reached through mappings, and no layer after L holds anything
\* but a mapping at a proper prefix of the path, the live value at the path is
\* L's value.  (Mappings are merged key by key; a scalar, array or null of a
\* later layer at a prefix replaces the whole subtree below it.)
C1_LastDefinedWins ==
    Ready =>
        \A parts \in AllParts :
            LET n == LastDefining(parts)
            IN  (/\ n # 0
                 /\ ~IsMapping(getParts(Layers[n], parts))
                 /\ \A q \in ProperPrefixes(parts) :
                        /\ IsMapping(getParts(Layers[n], q))
                        /\ \A m \in (n + 1)..4 :
                            \/ getParts(Layers[m], q) = Undef
                            \/ IsMapping(getParts(Layers[m], q)))
                => getParts(config, parts) = getParts(Layers[n], parts)

\* a.b defined by all four layers: 1, 2, 4 and, from --p 3, the 3 that wins
C1_Witness ==
    /\ Ready
    /\ getValueAtPath(defaults, PathAB) = Num(1)
    /\ getValueAtPath(fileConfig, PathAB) = Num(2)
    /\ getValueAtPath(configuration, PathAB) = Num(4)
    /\ getValueAtPath(cliConfig, PathAB) = Num(3)
    /\ getValueAtPath(config, PathAB) = Num(3)

\* the merge of the three layers below the command line
LowerMerge == deepMerge(deepMerge(deepMerge(EmptyObj, defaults), fileConfig),
                        configuration)

\* the parser of option n throws on the value that follows position k
ParserThrowsAt(n, k) ==
    /\ ~options[n].isFlag
    /\ HasValue(k)
    /\ ParsedAt(options[n], k + 1).thrown

\* the diagnostic of the catch
ParseDiagnostic(o, k) ==
    <<"Error parsing value for ">> \o o.flag \o <<": ">> \o ParsedAt(o, k + 1).v.v

\* the validator calls made for option o: one for each value its parser took
OnlyParsedValidated(o) ==
    o.validator.kind # "none" =>
        Cardinality({m \in 1..Len(called) : called[m].flag = o.flag})
            = Cardinality({k \in looked : /\ TokenAt(k) = o.flag
                                          /\ HasValue(k)
                                          /\ ~ParsedAt(o, k + 1).thrown})

\* one path is the other, or lies above or below it
Overlap(p, q) ==
    LET a == Split(p)
        b == Split(q)
    IN  \/ Len(a) <= Len(b) /\ SubSeq(b, 1, Len(a)) = a
        \/ Len(b) <= Len(a) /\ SubSeq(a, 1, Len(b)) = b

\* no accepted token writes at the path of option n, above it or below it
NoOtherWrite(n) ==
    \A k \in looked : \A m \in Matching(k) :
        Accepted(k) => ~Overlap(options[m].path, options[n].path)

ResultOf(n) ==
    CallConfigValidator(validators[n].validator,
                        getValueAtPath(config, validators[n].path), config)

ReturnsFailure(n) ==
    /\ ~ResultOf(n).thrown
    /\ ResultOf(n).v = Bool(FALSE) \/ ResultOf(n).v.t = "str"

\* the validation failure the n-th validator's returned result stands for
FailureOf(n) ==
    IF ResultOf(n).v = Bool(FALSE) THEN ValidationError(validators[n].message)
    ELSE ValidationError(ResultOf(n).v)

FirstOf(S) == CHOOSE n \in S : \A m \in S : n <= m

UpTo(n) == [m \in 1..n |-> m]

AfterValidate == pc = "ready" /\ outcome.op = "validate"

RaisedOnResult ==
    /\ AfterValidate
    /\ outcome.thrown
    /\ ~ResultOf(invoked[Len(invoked)]).thrown

\* C12 as stated: the message of the failure raised by validate() equals exactly
\* the string the validator returned, for every string, and equals the spec's
\* static message for a false result.
C12_AsStated ==
    RaisedOnResult =>
        LET n == invoked[Len(invoked)]
        IN  /\ ResultOf(n).v.t = "str" => outcome.v.message = ResultOf(n).v
            /\ ResultOf(n).v = Bool(FALSE) =>
                    outcome.v.message = validators[n].message

\* C12 (amended): for a non-empty string result the failure's message is
\* exactly that string, not the static message; for a false result it is the
\* static message when that is non-empty; for an empty string result, and for
\* false with an empty static message, it is 'Validation did not pass'.
C12_MessageByResult ==
    RaisedOnResult =>
        LET n == invoked[Len(invoked)]
            chosen == IF ResultOf(n).v.t = "str" THEN ResultOf(n).v
                      ELSE validators[n].message
        IN  /\ outcome.v.name = <<"ValidationError">>
            /\ outcome.v.message = IF chosen.v # <<>> THEN chosen
                                   ELSE Str(<<"Validation did not pass">>)

\* validate() has raised the string its validator returned, which is not the
\* static message
C12_Witness ==
    /\ RaisedOnResult
    /\ ResultOf(invoked[Len(invoked)]).v.t = "str"
    /\ ResultOf(invoked[Len(invoked)]).v.v # <<>>
    /\ ResultOf(invoked[Len(invoked)]).v # validators[invoked[Len(invoked)]].message
    /\ outcome.v.message = ResultOf(invoked[Len(invoked)]).v

AfterGet == pc = "ready" /\ outcome.op = "get"

\* some validator fails on the live tree as it is now
FailsNow ==
    \E n \in 1..Len(validators) : ResultOf(n).thrown \/ ReturnsFailure(n)

\* C13: with autoValidate on, get() raises if and only if some validator fails
\* on the live tree as it is now, whatever calls came before, and otherwise
\* returns the live tree; with autoValidate off it never raises and returns the
\* live tree.
C13_NeverCached ==
    AfterGet =>
        IF autoValidate
        THEN /\ outcome.thrown <=> FailsNow
             /\ ~outcome.thrown => outcome.v = config
        ELSE ~outcome.thrown /\ outcome.v = config

\* get() returns the live tree of a store whose tree failed validation as
\* constructed and was changed by setValue since
C13_Witness ==
    /\ AfterGet
    /\ autoValidate
    /\ ~outcome.thrown
    /\ validators # <<>>
    /\ validate(MergeLayers(defaults, fileConfig, configuration, cliConfig),
                validators).thrown

\* a step of setValue(path, value)
SetValueStep ==
    /\ pc = "ready"
    /\ outcome'.op = "setValue"
    /\ <<config, outcome>>' # <<config, outcome>>

\* C14: setValue with a mapping value on a path that holds a mapping stores
\* deepMerge(current, value) there, the keys value lacks or holds as undefined
\* keeping their values; with a value that is no mapping it overwrites the path
\* with exactly that value.
C14_SetValueMerges ==
    [][SetValueStep =>
        LET path == outcome'.v.path
            value == outcome'.v.value
            current == getValueAtPath(config, path)
            stored == getValueAtPath(config', path)
        IN  /\ IsMapping(value) /\ IsMapping(current) =>
                /\ stored = deepMerge(current, value)
                /\ \A k \in DOMAIN current.v :
                    (k \notin DOMAIN value.v \/ value.v[k] = Undef) =>
                        k \in DOMAIN stored.v /\ stored.v[k] = current.v[k]
            /\ ~IsMapping(value) => stored = value]_vars

\* setValue with a mapping that holds b as undefined has left the b of the
\* mapping at the path in place
C14_Witness ==
    /\ pc = "ready"
    /\ outcome.op = "setValue"
    /\ outcome.v.value = Obj(Kb :> Undef)
    /\ IsMapping(getValueAtPath(config, outcome.v.path))
    /\ Get(getValueAtPath(config, outcome.v.path), Kb) # Undef

AfterGetValue == pc = "ready" /\ outcome.op = "getValue"

\* C15: getValue returns the fallback when reading the path yields undefined
\* and the value read otherwise: a stored null, false, 0 or empty string is
\* returned as stored.
C15_FallbackOnUndefined ==
    AfterGetValue =>
        LET read == getValueAtPath(config, outcome.v.path)
        IN  /\ read = Undef => outcome.v.value = outcome.v.defaultValue
            /\ read # Undef => outcome.v.value = read
            /\ read \in {Null, Bool(FALSE), Num(0), Str(<<>>)} =>
                    outcome.v.value = read

\* getValue with a fallback has returned a stored null, false, 0 or ''
C15_Witness ==
    /\ AfterGetValue
    /\ outcome.v.defaultValue = Num(7)
    /\ getValueAtPath(config, outcome.v.path) \in {Null, Bool(FALSE), Num(0), Str(<<>>)}
    /\ outcome.v.value = getValueAtPath(config, outcome.v.path)

(***************************************************************************)
(* Properties of setValueAtPath and getValueAtPath                         *)
(***************************************************************************)
\* every path written so far reads back the value written there
RoundTrip ==
    pc = "path" => \A w \in written : getValueAtPath(obj, w.path) = w.value

\* a step of setValueAtPath, and the path it writes
WriteStep == pc = "path" /\ written' # written
WrittenNow == (CHOOSE w \in written' \ written : TRUE).path

\* the two paths pass through a string of the tree before they part
StringOnTheWay(tree, p, q) ==
    \E n \in 1..(Len(Split(p)) - 1) :
        /\ n < Len(Split(q))
        /\ SubSeq(Split(p), 1, n) = SubSeq(Split(q), 1, n)
        /\ getParts(tree, SubSeq(Split(p), 1, n)).t = "str"

\* C16 as stated: after writes at paths none of which is a prefix of another,
\* in any order, every written path reads back exactly the value written, and
\* a write at one path does not change what a read of a disjoint path returns.
C16_AsStated ==
    /\ []RoundTrip
    /\ [][WriteStep =>
            \A p \in WritePaths :
                Disjoint(p, WrittenNow) =>
                    getValueAtPath(obj', p) = getValueAtPath(obj, p)]_vars

\* C16 (amended): after writes at paths none of which is a prefix of another,
\* in any order, every written path reads back exactly the value written; a
\* write at one path does not change what a read of a disjoint path returns
\* unless both paths pass through a string of the tree, which the write
\* replaces by a mapping, so that reads below the string become undefined.
C16_WriteReadRoundTrip ==
    /\ []RoundTrip
    /\ [][WriteStep =>
            \A p \in WritePaths :
                Disjoint(p, WrittenNow) /\ ~StringOnTheWay(obj, p, WrittenNow) =>
                    getValueAtPath(obj', p) = getValueAtPath(obj, p)]_vars

\* three paths have been written, two of them below a, with an array and a
\* nested object among the values
C16_Witness ==
    /\ pc = "path"
    /\ Cardinality(written) = 3
    /\ \E w \in written : w.path = PathA0
    /\ \E w \in written : w.path = PathABA
    /\ \E w \in written : w.value = Arr(<<Num(1)>>)
    /\ \E w \in written : w.value = Obj(Ka :> Obj(Kb :> Num(1)))

(***************************************************************************)
(* Properties of the file layer and of the failures raised                 *)
(***************************************************************************)
\* a path was given and no file is there; a file is there and the read or the
\* parse throws
FileMissing == file.given /\ ~file.exists
FileBroken == file.given /\ file.exists /\ file.read.thrown

\* the diagnostics that report a file error
FileDiagnostics ==
    {n \in 1..Len(err) : err[n][1] = "Error reading config file: "}

\* C17: a config file path with no file behind it contributes an empty tree and
\* no diagnostic; a file that cannot be read or parsed contributes an empty
\* tree and exactly one diagnostic 'Error reading config file'; in both cases
\* construction completes and merges the other three layers as usual.
C17_FileFailuresSwallowed ==
    pc = "ready" /\ (FileMissing \/ FileBroken) =>
        /\ fileConfig = EmptyObj
        /\ out = <<>>
        /\ Cardinality(FileDiagnostics) = IF FileBroken THEN 1 ELSE 0
        /\ FileBroken =>
                err[1] = <<"Error reading config file: ">> \o file.read.v.v
        /\ config = deepMerge(deepMerge(defaults, configuration), cliConfig)
        /\ defaults = DefaultsOf(options, Len(options))
        /\ cliConfig = parseCliArgs(args, options).cliConfig

\* a store has been constructed over a file that is no JSON, with a default,
\* an explicit value and a CLI diagnostic besides
C17_Witness ==
    /\ pc = "ready"
    /\ FileBroken
    /\ Len(err) = 2
    /\ defaults # EmptyObj
    /\ configuration # EmptyObj
    /\ config # EmptyObj

\* C18 as stated: only validate() and get() with autoValidate on can raise, what
\* they raise is a ValidationError with a non-empty message and status code
\* 400, and construction, getValue, setValue and getHelpText never raise.
C18_AsStated ==
    pc = "ready" /\ outcome.thrown =>
        /\ outcome.op \in {"validate", "get"}
        /\ outcome.op = "get" => autoValidate
        /\ outcome.v.name = <<"ValidationError">>
        /\ outcome.v.message.t = "str" /\ outcome.v.message.v # <<>>
        /\ outcome.v.cause = Obj(StatusCode :> Num(BadRequest))

(***************************************************************************)
(* Properties of the preamble and of unmatched tokens                      *)
(***************************************************************************)
\* the first token ends in 'node' or 'node.exe'
Preamble ==
    /\ args # <<>>
    /\ EndsWith(args[1], NodeSuffix) \/ EndsWith(args[1], NodeExeSuffix)

\* the list without its first two tokens
Trimmed == SubSeq(args, 3, Len(args))

\* C19: the loop starts at token 2 if and only if the first token ends in
\* 'node' or 'node.exe', and at token 0 otherwise; behind a preamble tokens 0
\* and 1 are never looked up as a flag, and the tree is that of the list
\* without its first two tokens, provided that list starts at token 0 itself.
C19_PreambleRule ==
    /\ pc = "loop" /\ looked = {} => i = IF Preamble THEN 2 ELSE 0
    /\ Iterated =>
        /\ Preamble => 0 \notin looked /\ 1 \notin looked
        /\ ~Preamble => 0 \in looked
    /\ LoopDone /\ Preamble /\ StartIndex(Trimmed) = 0 =>
        cliConfig = parseCliArgs(Trimmed, options).cliConfig

\* xnode.exe --v --n 3: --v at token 1 is not looked up, --n 3 is written
C19_Witness ==
    /\ LoopDone
    /\ args = <<NodeExeToken, FlagV, FlagN, <<"3">>>>
    /\ options[2].validator.kind = "none"
    /\ looked = {2}
    /\ cliConfig = Obj(Kb :> Str(<<"3">>))

\* the list without the token at position k
Without(k) == SubSeq(args, 1, k) \o SubSeq(args, k + 2, Len(args))

\* position k is right behind the flag of an option that takes a value
ValuePosition(k) ==
    /\ k - 1 \in looked
    /\ \E n \in Matching(k - 1) : ~options[n].isFlag

\* the tokens the loop looked up, found no option for and skipped
Skipped == {k \in looked : Matching(k) = {} /\ ~ValuePosition(k)}

\* an unmatched token consumes one token and writes, prints and calls nothing
SkipsSilently ==
    Iterated /\ Matching(prev.i) = {} =>
        /\ i = prev.i + 1
        /\ cliConfig = prev.cliConfig
        /\ err = prev.err
        /\ called = prev.called

\* C20 as stated: a token that equals no flag consumes one token, writes
\* nothing and prints nothing, so that removing (or adding) an unmatched token
\* that is not in a value position does not change the tree.
C20_AsStated ==
    /\ SkipsSilently
    /\ LoopDone =>
        \A k \in Skipped : parseCliArgs(Without(k), options).cliConfig = cliConfig

\* C20 (amended): a token that equals no flag consumes one token, writes
\* nothing and prints nothing; removing (or adding) an unmatched token that
\* the loop looks up and that is not right behind the flag of an option taking
\* a value does not change the tree, provided the list starts at the same
\* token with and without it: a first token that ends in 'node' or 'node.exe'
\* makes the loop skip two tokens.
C20_UnmatchedSkipped ==
    /\ SkipsSilently
    /\ LoopDone =>
        \A k \in Skipped :
            StartIndex(Without(k)) = StartIndex(args) =>
                parseCliArgs(Without(k), options).cliConfig = cliConfig

\* 3 --v 9: the two unmatched tokens are skipped, --v between them is set
C20_Witness ==
    /\ LoopDone
    /\ args = <<<<"3">>, FlagV, <<"9">>>>
    /\ Skipped = {0, 2}
    /\ err = <<>>
    /\ cliConfig = Obj(Ka :> Bool(TRUE))


(***************************************************************************)
(* Properties of the explicit configuration object                         *)
(***************************************************************************)
\* a value that is no mapping, held at the path and reached through mappings
HoldsLeaf(tree, parts) ==
    /\ getParts(tree, parts) # Undef
    /\ ~IsMapping(getParts(tree, parts))
    /\ \A q \in ProperPrefixes(parts) : IsMapping(getParts(tree, q))

\* nothing at the path, and nothing but mappings above it
LeavesAlone(tree, parts) ==
    /\ getParts(tree, parts) = Undef
    /\ \A q \in ProperPrefixes(parts) :
        getParts(tree, q) = Undef \/ IsMapping(getParts(tree, q))

WrittenValue == (CHOOSE w \in written' \ written : TRUE).value
WrittenParts == Split(WrittenNow)

\* the first n parts of the written path, and the part that follows them
Upper(n) == SubSeq(WrittenParts, 1, n)
Following(n) == WrittenParts[n + 1]

Intermediate == 1..(Len(WrittenParts) - 1)

\* a mapping installed at the first n parts, holding the next part only
FreshAt(n) ==
    /\ IsMapping(getParts(obj', Upper(n)))
    /\ DOMAIN Props(getParts(obj', Upper(n))) = {Following(n)}

\* the container at the first n parts is the one that was there, with its
\* other entries
KeptAt(n) ==
    /\ getParts(obj', Upper(n)).t = getParts(obj, Upper(n)).t
    /\ \A key \in DOMAIN Props(getParts(obj, Upper(n))) \ {Following(n)} :
        Get(getParts(obj', Upper(n)), key) = Get(getParts(obj, Upper(n)), key)

\* C22 as stated: at every intermediate part where the tree holds anything
\* other than a mapping (nothing, null, a scalar or an array) a fresh empty
\* mapping is installed; the final part is set to the value.
C22_AsStated ==
    [][WriteStep =>
        /\ \A n \in Intermediate :
            ~IsMapping(getParts(obj, Upper(n))) => FreshAt(n)
        /\ getParts(obj', WrittenParts) = WrittenValue]_vars

\* C22 (amended): at every intermediate part where the tree holds nothing,
\* null or a scalar, a fresh empty mapping is installed; a mapping and an
\* array are kept with their other entries and descended into, so that the
\* next part becomes a named property of the array; the final part is set to
\* the value.
C22_IntermediateParts ==
    [][WriteStep =>
        /\ \A n \in Intermediate :
            IF getParts(obj, Upper(n)).t \in {"obj", "arr"}
            THEN KeptAt(n) ELSE FreshAt(n)
        /\ getParts(obj', WrittenParts) = WrittenValue]_vars

\* a.b written on {a: [2]}: a is still the array, now with the property b
C22_Witness ==
    /\ pc = "path"
    /\ getValueAtPath(obj, PathA).t = "arr"
    /\ getValueAtPath(obj, PathA0) = Num(2)
    /\ \E w \in written : w.path = PathAB /\ getValueAtPath(obj, PathAB) = w.value

(***************************************************************************)
(* Properties of getValueAtPath                                            *)
(***************************************************************************)
AfterRead == pc = "path" /\ outcome.op = "getValueAtPath"

ReadParts == Split(outcome.v.path)

\* what the tree holds at the parts before the last
Parent == getParts(obj, SubSeq(ReadParts, 1, Len(ReadParts) - 1))

LastPart == ReadParts[Len(ReadParts)]

\* C23 as stated: a read returns undefined as soon as an intermediate value is
\* absent, null or a scalar (string, number, boolean), and the value at the
\* final part otherwise.
C23_AsStated ==
    AfterRead =>
        outcome.v.value =
            IF \E q \in ProperPrefixes(ReadParts) : ~TypeofObject(getParts(obj, q))
                                                   \/ getParts(obj, q) = Null
            THEN Undef
            ELSE Get(Parent, LastPart)

\* C23 (amended): a read returns undefined as soon as an intermediate value is
\* absent, null, a number or a boolean; below a string it returns the
\* character at the index the part names, and undefined for any other part;
\* otherwise it returns the value at the final part.
C23_ReadStops ==
    AfterRead =>
        /\ (\E q \in ProperPrefixes(ReadParts) :
                getParts(obj, q).t \in {"undef", "null", "num", "bool"})
                => outcome.v.value = Undef
        /\ (Len(ReadParts) > 1 /\ Parent.t = "str")
                => outcome.v.value =
                    IF \E n \in 1..Len(Parent.v) : IndexKey(n - 1) = LastPart
                    THEN Str(<<Parent.v[CHOOSE n \in 1..Len(Parent.v) :
                                            IndexKey(n - 1) = LastPart]>>)
                    ELSE Undef
        /\ Parent.t \in {"obj", "arr"} => outcome.v.value = Get(Parent, LastPart)

\* a.0 read on a tree that holds the string 'x' at a
C23_Witness ==
    /\ AfterRead
    /\ outcome.v.path = PathA0
    /\ getValueAtPath(obj, PathA) = Str(<<"x">>)
    /\ outcome.v.value = Str(<<"x">>)


(***************************************************************************)
(* Properties of deepMerge on objects held by reference                    *)
(***************************************************************************)
\* C24: deepMerge returns a new top-level mapping, which is none of the
\* objects its inputs are made of, and modifies neither input at any depth:
\* after the call the target and the source are the trees they were; the
\* mapping returned is the merge of the two.
C24_InputsUntouched ==
    Merged =>
        /\ Deref(heap, refs.target) = target
        /\ Deref(heap, refs.source) = source
        /\ refs.result.a \notin Reach(heap, refs.target) \cup Reach(heap, refs.source)
        /\ Deref(heap, refs.result) = deepMerge(target, source)

\* a merge of two trees that both hold a mapping at a, with a key of the
\* source that the target lacks
C24_Witness ==
    /\ Merged
    /\ IsRef(refs.result)
    /\ IsMapping(Get(target, Ka)) /\ IsMapping(Get(source, Ka))
    /\ \E k \in DOMAIN source.v : k \notin DOMAIN target.v
    /\ Get(result, Ka) # Get(target, Ka)


(***************************************************************************)
(* Properties of the defaults layer                                        *)
(***************************************************************************)
\* the options that have a defined defaultValue
Defaulting == {n \in DOMAIN options : options[n].defaultValue # Undef}

\* the options whose default no later default is written at, above or below
LastWritten ==
    {n \in Defaulting :
        \A m \in Defaulting : m > n => ~Overlap(options[m].path, options[n].path)}

\* the defaults layer holds the default of every option in LastWritten at its
\* path, and nothing that no option's default accounts for
DefaultsLayer ==
    /\ \A n \in LastWritten :
        getValueAtPath(defaults, options[n].path) = options[n].defaultValue
    /\ \A parts \in AllParts :
        getParts(defaults, parts) # Undef =>
            \E n \in Defaulting :
                LET p == Split(options[n].path)
                IN  \/ Len(p) <= Len(parts) /\ SubSeq(parts, 1, Len(p)) = p
                    \/ Len(parts) <= Len(p) /\ SubSeq(p, 1, Len(parts)) = parts
    /\ Defaulting = {} => defaults = EmptyObj

ReadsLeaveTree ==
    [][pc = "ready" /\ outcome'.op # "setValue" =>
            config' = config /\ heap' = heap /\ refs' = refs]_vars

\* the step is a setValue below the path of an option whose default value is
\* a mapping
BelowMappingDefault ==
    /\ outcome'.op = "setValue"
    /\ \E n \in DOMAIN options :
        /\ IsMappingH(heap, refs.defaultValue[n])
        /\ IsPrefix(options[n].path, outcome'.v.path)
        /\ options[n].path # outcome'.v.path

\* the default values of the options as they are now
DefaultsNow == [n \in DOMAIN options |-> Deref(heap, refs.defaultValue[n])]

C28_AsStated ==
    pc = "ready" =>
        /\ Deref(heap, refs.configuration) = configuration
        /\ \A n \in DOMAIN options :
            Deref(heap, refs.defaultValue[n]) = options[n].defaultValue


(***************************************************************************)
(* Properties of two setValue calls on the same path                       *)
(***************************************************************************)
BothReturned == pc = "race" /\ \A c \in Callers : calls[c].pc = "returned"

\* one call read after the other had returned
Sequential == \E c \in Callers : calls[c].readLast

\* the call that wrote last
LastWriter == CHOOSE c \in Callers : calls[c].wroteLast

RacePath == calls[1].path

\* the keys of the two values
BothKeys == DOMAIN calls[1].value.v \cup DOMAIN calls[2].value.v

\* C27: setValue with a mapping value reads, merges and then writes.  When
\* two calls on the same path both read before either writes, the mapping at
\* the path is what the last writer merged from what it read, and so can lack
\* the keys of the other call; when one call reads after the other has
\* returned, the mapping at the path holds the keys of both.
C27_LostUpdate ==
    BothReturned =>
        IF Sequential
        THEN \A k \in BothKeys : HasKey(getValueAtPath(config, RacePath), k)
        ELSE getValueAtPath(config, RacePath) = calls[LastWriter].toWrite

\* both calls read the empty tree; the second writer's {b: 9} is all there is
\* at the path, the first writer's key a is lost
C27_Witness ==
    /\ BothReturned
    /\ ~Sequential
    /\ calls[Other(LastWriter)].value = Obj(Ka :> Num(1))
    /\ calls[LastWriter].value = Obj(Kb :> Num(9))
    /\ getValueAtPath(config, RacePath) = Obj(Kb :> Num(9))


(***************************************************************************)
(* Properties of two merges in a row                                       *)
(***************************************************************************)
\* key k holds a mapping in a and in c and, in b, a value that is neither
\* undefined nor a mapping
BlockedAt(a, b, c, k) ==
    /\ IsMapping(Get(a, k))
    /\ Get(b, k) # Undef /\ ~IsMapping(Get(b, k))
    /\ IsMapping(Get(c, k))

RECURSIVE Blocked(_, _, _)

\* some key is blocked, in the three trees or in the mappings that all three
\* hold at a key
Blocked(a, b, c) ==
    \E k \in DOMAIN Props(a) :
        \/ BlockedAt(a, b, c, k)
        \/ /\ IsMapping(Get(a, k)) /\ IsMapping(Get(b, k)) /\ IsMapping(Get(c, k))
           /\ Blocked(Get(a, k), Get(b, k), Get(c, k))

\* C29 as stated: merging is associative: merging the two lower layers first
\* gives the same tree as merging the two upper layers first, so that a
\* sub-key of the lowest layer under a key survives a scalar, an array or null
\* of the middle layer there when the upper layer holds a mapping there.
C29_AsStated ==
    Merged => result = deepMerge(target, deepMerge(source, upper))

\* C29 (amended): the layers are merged lowest first, and the merge is
\* associative except where a key holds a mapping in the lowest layer, a
\* scalar, an array or null in the middle layer and a mapping in the upper
\* layer: there the result holds the upper layer's mapping alone, and the
\* sub-keys of the lowest layer are lost.
C29_LowestFirst ==
    Merged =>
        /\ ~Blocked(target, source, upper)
                => result = deepMerge(target, deepMerge(source, upper))
        /\ \A k \in DOMAIN Props(target) :
            BlockedAt(target, source, upper, k) => Get(result, k) = Get(upper, k)

\* {a: {a: 1}}, {a: null} and {a: {b: 2}} give {a: {b: 2}}
C29_Witness ==
    /\ Merged
    /\ target = Obj(Ka :> Obj(Ka :> Num(1)))
    /\ source = Obj(Ka :> Null)
    /\ upper = Obj(Ka :> Obj(Kb :> Num(2)))
    /\ result = upper


(***************************************************************************)
(* Properties of a flag given several times                                *)
(***************************************************************************)
\* the positions at which the flag of option n was looked up, and those at
\* which it was accepted
Occurrences(n) == {k \in looked : n \in Matching(k)}
AcceptedOf(n) == {k \in Occurrences(n) : ~Fails(k)}
LastAccepted(n) == CHOOSE k \in AcceptedOf(n) : \A m \in AcceptedOf(n) : m <= k

\* the valued options given several times and accepted at least once
Repeated ==
    {n \in 1..Len(options) : /\ ~options[n].isFlag
                             /\ Cardinality(Occurrences(n)) >= 2
                             /\ AcceptedOf(n) # {}}

\* after the last accepted occurrence of option n, another option is accepted
\* at its path, above it or below it
Disturbed(n) ==
    \E k \in looked :
        /\ k > LastAccepted(n)
        /\ Accepted(k)
        /\ \E m \in Matching(k) : m # n /\ Overlap(options[m].path, options[n].path)

\* a failing occurrence leaves the tree as it is
FailureKeepsTree == Iterated /\ Fails(prev.i) => cliConfig = prev.cliConfig

\* every iteration moves on, and not beyond the end of the list
MovesOn == Iterated => prev.i < i /\ i <= Len(args)

\* C30 as stated: when the flag of a valued option occurs several times, the
\* value in the tree is that of the last accepted occurrence; a later failing
\* occurrence does not alter the value an earlier one wrote; every token is
\* examined at most once.
C30_AsStated ==
    /\ FailureKeepsTree
    /\ MovesOn
    /\ LoopDone =>
        \A n \in Repeated :
            getValueAtPath(cliConfig, options[n].path)
                = Written(options[n], LastAccepted(n))

\* C30 (amended): when the flag of a valued option occurs several times, the
\* value in the tree is that of the last accepted occurrence, unless another
\* option is accepted after it at the same path, above it or below it; a
\* later failing occurrence does not alter the tree; every iteration moves on
\* by one or two tokens, and the loop ends.
C30_LastAcceptedWins ==
    /\ [](/\ FailureKeepsTree
          /\ MovesOn
          /\ LoopDone =>
                \A n \in Repeated :
                    ~Disturbed(n) =>
                        getValueAtPath(cliConfig, options[n].path)
                            = Written(options[n], LastAccepted(n)))
    /\ <>LoopDone

\* --n 3 --n 9 under no validator: b is '9'; and --n 3 --n: b is still '3'
C30_Witness ==
    /\ LoopDone
    /\ \/ /\ args = <<FlagN, <<"3">>, FlagN, <<"9">>>>
          /\ options[2].validator = NoValidator
          /\ cliConfig = Obj(Kb :> Str(<<"9">>))
       \/ /\ args = <<FlagP, <<"3">>, FlagP, <<"9">>>>
          /\ options[1].validator = Range(1, 5)
          /\ cliConfig = setValueAtPath(EmptyObj, PathAB, Num(3))
          /\ Len(err) = 1

====
